---- MODULE Spec2Model ----
(***************************************************************************)
(* Verification model of the esp-assistant UI shell.                       *)
(*   - TouchController  (src/src/controllers/TouchController.cpp)          *)
(*   - NavigationController (src/src/controllers/NavigationController.cpp) *)
(*   - FrameBuffer      (src/src/hardware/display/FrameBuffer.cpp)         *)
(*   - CircularSlider   (src/src/views/components/CircularSlider.cpp)      *)
(*   - HexagonalGrid    (src/src/views/layouts/HexagonalGrid.cpp)          *)
(* Each component has its own specification (SpecTouch, SpecNav,           *)
(* SpecFrame, SpecSlider, SpecGrid, SpecHexPosition) over the shared       *)
(* state; the other components' variables are left unchanged.              *)
(***************************************************************************)
EXTENDS Integers, Sequences, FiniteSets, TLC

(* ----------------------------- bounds --------------------------------- *)
\* millis() is followed up to this value
MaxTime == 1100
\* navigation stack depth explored
MaxDepth == 2
\* number of page instances created along one behaviour
MaxPages == 3
\* number of frames presented along one behaviour
MaxFrames == 3
\* number of items held by the grid
MaxItems == 3
\* largest index handed to getHexPosition
MaxIndex == 95

(* ------------------------- program constants -------------------------- *)
TAP_MAX_DURATION == 300
LONG_PRESS_DURATION == 800
DRAG_THRESHOLD == 10
TOUCH_DEADZONE == 5
SCREEN_WIDTH == 360
SCREEN_HEIGHT == 360

\* inputs: time between two loop iterations, touch coordinates
TimeSteps == {100, 300, 500}
CoordX == {100, 109, 111}
CoordY == {100, 111}
\* what the driver leaves in x, y on a frame without contact
IdleCoords == {<<0, 0>>, <<111, 111>>}
\* inputs of markDirty: int16_t values, off-screen and negative ones included
DirtyXs == {-20, 100, 350}
DirtyWidths == {-32768, 0, 50, 400}
DirtyYs == {-20, 100}
DirtyHeights == {-32768, 30}

VARIABLES
    \* TouchController
    now,              \* value returned by millis()
    m_currentTouch, m_lastTouch, m_touchStart,
    m_lastEvent, m_touchStartTime, m_isDragging,
    \* observation of the running touch session (press-edge to release-edge)
    sessPhase,        \* "none" | "active" | "released"
    sessEvents,       \* events other than NONE emitted in the session
    sessStationary,   \* every held frame had |dx| < 10 and |dy| < 10
    sessMovedEarly,   \* some held frame had |dx| > 10 or |dy| > 10 at elapsed < 800
    sessHeldLong,     \* some stationary held frame had elapsed >= 800
    sessElapsed,      \* elapsed time at the latest frame of the session
    \* NavigationController
    navPhase,         \* "setup" | "running" | "halted" | "hung"
    m_routes, m_stack, m_currentRoute, m_rootRoute,
    nextPageId,       \* identity of the next page instance a factory builds
    lastCall,         \* the public operation executed last and its outcome
    callTrace,        \* lifecycle calls made by the operation executed last
    lastRegistered,   \* the route passed to registerRoute when it ran last
    \* FrameBuffer
    m_initialized, m_frontBuffer, m_backBuffer,
    m_dirtyRegion, m_dirtyTracking, m_frameCount,
    fbLastOp,         \* the operation executed last and its arguments
    fbFlush,          \* what the operation executed last pushed to the panel
    fbUnion,          \* bounding box of the rectangles marked since the flag was cleared
    fbSwaps,          \* front/back assignment before each of the two latest endFrames
    \* CircularSlider
    slider,           \* the fields of the widget
    sliderLastOp,     \* the operation executed last and its arguments
    \* HexagonalGrid
    m_items, m_scrollOffsetX, m_scrollOffsetY, m_maxScrollX, m_maxScrollY,
    m_itemRadius, m_spacing,
    fpSlack,          \* 1 when a float product at a whole number falls short of it
    gridLastOp,       \* the operation executed last, its arguments and outcome
    \* main.cpp, AuthService and the page views
    shellPhase,       \* "boot" | "running" | "corrupt"
    authenticated,    \* AuthService::isAuthenticated()
    shellLastOp       \* the step of main executed last and what its handler did

touchVars == <<now, m_currentTouch, m_lastTouch, m_touchStart, m_lastEvent,
               m_touchStartTime, m_isDragging, sessPhase, sessEvents,
               sessStationary, sessMovedEarly, sessHeldLong, sessElapsed>>
navVars == <<navPhase, m_routes, m_stack, m_currentRoute, m_rootRoute,
             nextPageId, lastCall, callTrace, lastRegistered>>
frameVars == <<m_initialized, m_frontBuffer, m_backBuffer, m_dirtyRegion,
               m_dirtyTracking, m_frameCount, fbLastOp, fbFlush, fbUnion, fbSwaps>>
sliderVars == <<slider, sliderLastOp>>
gridVars == <<m_items, m_scrollOffsetX, m_scrollOffsetY, m_maxScrollX, m_maxScrollY,
              m_itemRadius, m_spacing, fpSlack, gridLastOp>>
shellVars == <<shellPhase, authenticated, shellLastOp>>
vars == <<touchVars, navVars, frameVars, sliderVars, gridVars, shellVars>>
otherVarsOfTouch == <<navVars, frameVars, sliderVars, gridVars, shellVars>>
otherVarsOfNav == <<touchVars, frameVars, sliderVars, gridVars, shellVars>>
otherVarsOfFrame == <<touchVars, navVars, sliderVars, gridVars, shellVars>>
otherVarsOfSlider == <<touchVars, navVars, frameVars, gridVars, shellVars>>
otherVarsOfGrid == <<touchVars, navVars, frameVars, sliderVars, shellVars>>
otherVarsOfShell == <<frameVars, sliderVars, gridVars>>

(* ======================= TouchController ============================== *)

Abs(n) == IF n < 0 THEN -n ELSE n

\* conversion of an int to int16_t
Int16(n) == ((n + 32768) % 65536) - 32768

\* uint32_t subtraction (2^32 is written as a product: it is only evaluated
\* when the difference wraps)
U32Sub(a, b) == IF a >= b THEN a - b ELSE (a - b) + 65536 * 65536

TouchPoint(x, y, pressed, ts) == [x |-> x, y |-> y, pressed |-> pressed, timestamp |-> ts]

\* the stationary test of the long-press branch
IsStationary(deltaX, deltaY) ==
    Abs(deltaX) < DRAG_THRESHOLD /\ Abs(deltaY) < DRAG_THRESHOLD

DragDetected_Deadzone(deltaX, deltaY) ==
    Abs(deltaX) > TOUCH_DEADZONE \/ Abs(deltaY) > TOUCH_DEADZONE

\* the movement test of the drag branch
DragDetected(deltaX, deltaY) ==
    Abs(deltaX) > DRAG_THRESHOLD \/ Abs(deltaY) > DRAG_THRESHOLD

\* enum class TouchEvent
TouchEvent == {"NONE", "TAP", "DOUBLE_TAP", "LONG_PRESS", "DRAG_START", "DRAG_MOVE",
               "DRAG_END", "SWIPE_UP", "SWIPE_DOWN", "SWIPE_LEFT", "SWIPE_RIGHT"}

\* a recognizer whose long-press test does not look at the dragging flag
detectGestures_LongPressWhileDragging(cur, start, startTime, dragging, t) ==
    LET deltaX == Int16(cur.x - start.x)
        deltaY == Int16(cur.y - start.y)
        duration == U32Sub(t, startTime)
    IN  IF duration > LONG_PRESS_DURATION /\ IsStationary(deltaX, deltaY)
        THEN [event |-> "LONG_PRESS", dragging |-> dragging]
        ELSE IF DragDetected(deltaX, deltaY)
             THEN IF ~dragging
                  THEN [event |-> "DRAG_START", dragging |-> TRUE]
                  ELSE [event |-> "DRAG_MOVE", dragging |-> dragging]
             ELSE [event |-> "NONE", dragging |-> dragging]

\* detectGestures(): the event and the dragging flag after a held frame
detectGestures(cur, start, startTime, dragging, t) ==
    LET deltaX == Int16(cur.x - start.x)
        deltaY == Int16(cur.y - start.y)
        duration == U32Sub(t, startTime)
    IN  IF ~dragging /\ duration > LONG_PRESS_DURATION /\ IsStationary(deltaX, deltaY)
        THEN [event |-> "LONG_PRESS", dragging |-> dragging]
        ELSE IF DragDetected(deltaX, deltaY)
             THEN IF ~dragging
                  THEN [event |-> "DRAG_START", dragging |-> TRUE]
                  ELSE [event |-> "DRAG_MOVE", dragging |-> dragging]
             ELSE [event |-> "NONE", dragging |-> dragging]

\* a release that reports the end of a drag as a swipe
ReleaseEvent_Swipe(dragging, duration) ==
    IF dragging THEN "SWIPE_UP"
    ELSE IF duration < TAP_MAX_DURATION THEN "TAP"
    ELSE "NONE"

ReleaseEvent_TapFirst(dragging, duration) ==
    IF duration < TAP_MAX_DURATION THEN "TAP"
    ELSE IF dragging THEN "DRAG_END"
    ELSE "NONE"

\* the event of the release frame ("Touch ended" branch of update)
ReleaseEvent(dragging, duration) ==
    IF dragging THEN "DRAG_END"
    ELSE IF duration < TAP_MAX_DURATION THEN "TAP"
    ELSE "NONE"

AppendEvent(evs, e) == IF e = "NONE" THEN evs ELSE Append(evs, e)

\* TouchController::update(), one loop iteration dt ms after the previous one.
\* touched, x, y: what TouchDriver::read delivered (x, y are arbitrary when
\* nothing was read)
TouchStep(touched, x, y, dt) ==
    LET t == now + dt
        cur == TouchPoint(x, y, touched, t)
        last == m_currentTouch
    IN  /\ t <= MaxTime
        /\ now' = t
        /\ m_lastTouch' = last
        /\ m_currentTouch' = cur
        /\ IF touched /\ ~last.pressed THEN
              \* touch started
              /\ m_touchStart' = cur
              /\ m_touchStartTime' = t
              /\ m_isDragging' = FALSE
              /\ m_lastEvent' = "NONE"
              /\ sessPhase' = "active"
              /\ sessEvents' = <<>>
              /\ sessStationary' = TRUE
              /\ sessMovedEarly' = FALSE
              /\ sessHeldLong' = FALSE
              /\ sessElapsed' = 0
           ELSE IF touched /\ last.pressed THEN
              \* touch continuing
              LET g == detectGestures(cur, m_touchStart, m_touchStartTime, m_isDragging, t)
                  dx == cur.x - m_touchStart.x
                  dy == cur.y - m_touchStart.y
                  el == U32Sub(t, m_touchStartTime)
                  still == Abs(dx) < 10 /\ Abs(dy) < 10
              IN  /\ m_lastEvent' = g.event
                  /\ m_isDragging' = g.dragging
                  /\ UNCHANGED <<m_touchStart, m_touchStartTime, sessPhase>>
                  /\ sessEvents' = AppendEvent(sessEvents, g.event)
                  /\ sessStationary' = (sessStationary /\ still)
                  /\ sessMovedEarly' = (sessMovedEarly \/ ((Abs(dx) > 10 \/ Abs(dy) > 10) /\ el < 800))
                  /\ sessHeldLong' = (sessHeldLong \/ (sessStationary /\ still /\ el >= 800))
                  /\ sessElapsed' = el
           ELSE IF ~touched /\ last.pressed THEN
              \* touch ended
              LET duration == U32Sub(t, m_touchStartTime)
                  e == ReleaseEvent(m_isDragging, duration)
              IN  /\ m_lastEvent' = e
                  \* resetGestureState()
                  /\ m_isDragging' = FALSE
                  /\ m_touchStartTime' = 0
                  /\ UNCHANGED <<m_touchStart, sessStationary, sessMovedEarly, sessHeldLong>>
                  /\ sessPhase' = "released"
                  /\ sessEvents' = AppendEvent(sessEvents, e)
                  /\ sessElapsed' = duration
           ELSE
              /\ m_lastEvent' = "NONE"
              /\ sessPhase' = "none"
              /\ UNCHANGED <<m_touchStart, m_touchStartTime, m_isDragging, sessEvents,
                             sessStationary, sessMovedEarly, sessHeldLong, sessElapsed>>

\* update() called on its own: nothing but the controller changes
TouchUpdate(touched, x, y, dt) ==
    /\ TouchStep(touched, x, y, dt)
    /\ UNCHANGED otherVarsOfTouch

InitTouch ==
    /\ now = 0
    /\ m_lastEvent = "NONE"
    /\ m_touchStartTime = 0
    /\ m_isDragging = FALSE
    /\ m_currentTouch = TouchPoint(0, 0, FALSE, 0)
    /\ m_lastTouch = TouchPoint(0, 0, FALSE, 0)
    /\ m_touchStart = TouchPoint(0, 0, FALSE, 0)
    /\ sessPhase = "none"
    /\ sessEvents = <<>>
    /\ sessStationary = TRUE
    /\ sessMovedEarly = FALSE
    /\ sessHeldLong = FALSE
    /\ sessElapsed = 0

NextTouch ==
    \E touched \in BOOLEAN, dt \in TimeSteps :
        \E p \in (IF touched THEN CoordX \X CoordY ELSE IdleCoords) :
            TouchUpdate(touched, p[1], p[2], dt)

(* ===================== NavigationController =========================== *)

\* route paths offered to registerRoute
Paths == {"/", "/a"}
\* a path no route is registered for (as "/app/ai-assistant" in HomeView.cpp)
UnknownPath == "/x"
NullPath == "null"       \* a null const char*
NullRoute == "null"      \* a null Route*
NoGuard == "none"        \* Route::guard == nullptr

\* struct Route; guard is NoGuard or the path its getRedirectPath() returns
Route(path, guard, requiresAuth) ==
    [path |-> path, guard |-> guard, requiresAuth |-> requiresAuth]

\* a PageView instance built by the factory of the route at `route`
PageView(id, route) == [id |-> id, route |-> route, m_isActive |-> FALSE]

\* findRoute: position in m_routes of the first route with this path, 0 = nullptr
findRoute(routes, path) ==
    IF \E i \in DOMAIN routes : routes[i].path = path
    THEN CHOOSE i \in DOMAIN routes :
            /\ routes[i].path = path
            /\ \A j \in DOMAIN routes : routes[j].path = path => i <= j
    ELSE 0

\* canActivateRoute; allow[p] is what the guard of the route at p answers
canActivateRoute(route, allow) ==
    IF route.guard # NoGuard THEN allow[route.path]
    ELSE IF route.requiresAuth THEN TRUE
    ELSE TRUE

canGoBack(stack) == Len(stack) > 1

Front(seq) == SubSeq(seq, 1, Len(seq) - 1)
Top(seq) == seq[Len(seq)]
SetTopActive(stack, b) ==
    [stack EXCEPT ![Len(stack)] = [@ EXCEPT !.m_isActive = b]]

\* the identities of the pages of a stack, bottom first
PageIds(stack) == [i \in DOMAIN stack |-> stack[i].id]

\* the stack-clearing loop of navigateTo: pop and delete from the top
RECURSIVE ClearTrace(_)
ClearTrace(stack) ==
    IF stack = <<>> THEN <<>>
    ELSE <<<<"destroy", Top(stack).id>>>> \o ClearTrace(Front(stack))

\* outcome of a call: the router state it leaves and what it returned
NavOutcome(stack, cur, nextId, trace, returned, result, factoryFailed) ==
    [stack |-> stack, cur |-> cur, nextId |-> nextId, trace |-> trace,
     returned |-> returned, result |-> result, factoryFailed |-> factoryFailed]

RedirectTaken_NoLoopCheck(route, path) == route.guard # NoGuard

\* the redirect test of navigateTo: a guard is attached and its redirect
\* path differs from the requested path
RedirectTaken(route, path) == route.guard # NoGuard /\ route.guard # path

PushCreated_CurrentFirst(stack, cur, nextId, trace, route, factoryOk) ==
    IF ~factoryOk
    THEN NavOutcome(stack, route.path, nextId, trace, TRUE, FALSE, TRUE)
    ELSE NavOutcome(Append(stack, [PageView(nextId, route.path) EXCEPT !.m_isActive = TRUE]),
                    route.path, nextId + 1,
                    trace \o << <<"create", nextId>>, <<"onEnter", nextId>> >>,
                    TRUE, TRUE, FALSE)

PushCreated_PopOnFailure(stack, cur, nextId, trace, route, factoryOk) ==
    IF ~factoryOk
    THEN NavOutcome(IF stack = <<>> THEN stack ELSE Front(stack),
                    cur, nextId, trace, TRUE, FALSE, TRUE)
    ELSE NavOutcome(Append(stack, [PageView(nextId, route.path) EXCEPT !.m_isActive = TRUE]),
                    route.path, nextId + 1,
                    trace \o << <<"create", nextId>>, <<"onEnter", nextId>> >>,
                    TRUE, TRUE, FALSE)

\* the tail of navigateTo: createView, null check, push_back, m_currentRoute,
\* onEnter
PushCreated(stack, cur, nextId, trace, route, factoryOk) ==
    IF ~factoryOk
    THEN NavOutcome(stack, cur, nextId, trace, TRUE, FALSE, TRUE)
    ELSE NavOutcome(Append(stack, [PageView(nextId, route.path) EXCEPT !.m_isActive = TRUE]),
                    route.path, nextId + 1,
                    trace \o << <<"create", nextId>>, <<"onEnter", nextId>> >>,
                    TRUE, TRUE, FALSE)

EarlyReturn_ClearedFirst(stack, cur, nextId, clearStack) ==
    IF clearStack
    THEN NavOutcome(<<>>, cur, nextId, ClearTrace(stack), TRUE, FALSE, FALSE)
    ELSE NavOutcome(stack, cur, nextId, <<>>, TRUE, FALSE, FALSE)

\* the early returns of navigateTo (null path, route not found): they come
\* before the clearStack loop, so the request to clear has not been acted on
EarlyReturn(stack, cur, nextId, clearStack) ==
    NavOutcome(stack, cur, nextId, <<>>, TRUE, FALSE, FALSE)

\* navigateTo(path, clearStack) on the router state (stack, cur, nextId).
\* allow: the answers of the guards during this call; factoryOk: whether the
\* factory returns a page; pending: the (path, clearStack) pairs of the
\* calls of this recursion that have not returned.  A recursive call equal
\* to a pending one meets the same router state and the same guard answers,
\* so the recursion never returns.
RECURSIVE navigateTo(_, _, _, _, _, _, _, _, _)
navigateTo(routes, stack, cur, nextId, path, clearStack, allow, factoryOk, pending) ==
    IF path = NullPath THEN EarlyReturn(stack, cur, nextId, clearStack)
    ELSE
    LET idx == findRoute(routes, path) IN
    IF idx = 0 THEN EarlyReturn(stack, cur, nextId, clearStack)
    ELSE
    LET route == routes[idx] IN
    IF ~canActivateRoute(route, allow)
    THEN IF RedirectTaken(route, path)
         THEN IF <<route.guard, FALSE>> \in pending
              THEN NavOutcome(stack, cur, nextId, <<>>, FALSE, FALSE, FALSE)
              ELSE navigateTo(routes, stack, cur, nextId, route.guard, FALSE, allow,
                              factoryOk, pending \cup {<<route.guard, FALSE>>})
         ELSE NavOutcome(stack, cur, nextId, <<>>, TRUE, FALSE, FALSE)
    ELSE
    LET cleared == IF clearStack THEN <<>> ELSE stack
        trace1 == IF clearStack THEN ClearTrace(stack) ELSE <<>>
        exited == IF cleared # <<>> THEN SetTopActive(cleared, FALSE) ELSE cleared
        trace2 == IF cleared # <<>> THEN Append(trace1, <<"onExit", Top(cleared).id>>)
                  ELSE trace1
    IN  PushCreated(exited, cur, nextId, trace2, route, factoryOk)

\* the guard attached to the route registered at path refuses activation
GuardRefuses(routes, path, allow) ==
    /\ path # NullPath
    /\ findRoute(routes, path) # 0
    /\ routes[findRoute(routes, path)].guard # NoGuard
    /\ ~allow[path]

CallRecord(op, path, clearStack, out, denied) ==
    [op |-> op, path |-> path, clearStack |-> clearStack,
     returned |-> out.returned, result |-> out.result,
     denied |-> denied, factoryFailed |-> out.factoryFailed]

\* the exploration stops at MaxDepth pages on the stack and MaxPages instances
WithinBounds(out) == Len(out.stack) <= MaxDepth /\ out.nextId <= MaxPages + 1

registerRoute_Overwrite(routes, route) ==
    IF \E i \in DOMAIN routes : routes[i].path = route.path
    THEN [i \in DOMAIN routes |-> IF routes[i].path = route.path THEN route ELSE routes[i]]
    ELSE Append(routes, route)

\* registerRoute: the route table after registering route
registerRoute(routes, route) ==
    IF \E i \in DOMAIN routes : routes[i].path = route.path
    THEN routes
    ELSE Append(routes, route)

\* no registerRoute call was the last operation
NoRegistration == [path |-> NullPath, guard |-> NoGuard, requiresAuth |-> FALSE]

\* registerRoute(route); routes are registered before init (main.cpp)
RegisterRoute(route) ==
    /\ navPhase = "setup"
    /\ m_routes' = registerRoute(m_routes, route)
    /\ lastCall' = [op |-> "registerRoute", path |-> route.path, clearStack |-> FALSE,
                    returned |-> TRUE, result |-> TRUE, denied |-> FALSE,
                    factoryFailed |-> FALSE]
    /\ callTrace' = <<>>
    /\ lastRegistered' = route
    /\ UNCHANGED <<navPhase, m_stack, m_currentRoute, m_rootRoute, nextPageId>>
    /\ UNCHANGED otherVarsOfNav

\* NavigationController::init(); main.cpp halts when it returns false
NavInit(allow, factoryOk) ==
    /\ navPhase = "setup"
    /\ IF findRoute(m_routes, "/") = 0
       THEN /\ m_rootRoute' = NullRoute
            /\ navPhase' = "halted"
            /\ lastCall' = [op |-> "init", path |-> "/", clearStack |-> TRUE,
                            returned |-> TRUE, result |-> FALSE, denied |-> FALSE,
                            factoryFailed |-> FALSE]
            /\ callTrace' = <<>>
            /\ UNCHANGED <<m_stack, m_currentRoute, nextPageId>>
       ELSE \E out \in {navigateTo(m_routes, m_stack, m_currentRoute, nextPageId,
                                     "/", TRUE, allow, factoryOk, {<<"/", TRUE>>})} :
                /\ WithinBounds(out)
                /\ m_rootRoute' = "/"
                /\ m_stack' = out.stack
                /\ m_currentRoute' = out.cur
                /\ nextPageId' = out.nextId
                /\ callTrace' = out.trace
                /\ lastCall' = CallRecord("init", "/", TRUE, out,
                                          GuardRefuses(m_routes, "/", allow))
                /\ navPhase' = IF ~out.returned THEN "hung"
                               ELSE IF out.result THEN "running" ELSE "halted"
    /\ UNCHANGED m_routes
    /\ lastRegistered' = NoRegistration
    /\ UNCHANGED otherVarsOfNav

\* a call of navigateTo(path, clearStack) by a page or by main
NavNavigateTo(path, clearStack, allow, factoryOk) ==
    /\ navPhase = "running"
    /\ \E out \in {navigateTo(m_routes, m_stack, m_currentRoute, nextPageId,
                             path, clearStack, allow, factoryOk, {<<path, clearStack>>})} :
           /\ WithinBounds(out)
           /\ m_stack' = out.stack
           /\ m_currentRoute' = out.cur
           /\ nextPageId' = out.nextId
           /\ callTrace' = out.trace
           /\ lastCall' = CallRecord("navigateTo", path, clearStack, out,
                                     GuardRefuses(m_routes, path, allow))
           /\ navPhase' = IF out.returned THEN "running" ELSE "hung"
    /\ UNCHANGED <<m_routes, m_rootRoute>>
    /\ lastRegistered' = NoRegistration
    /\ UNCHANGED otherVarsOfNav

goBack_NoCheck(stack, cur) ==
    IF stack = <<>>
    THEN [stack |-> stack, cur |-> cur, trace |-> <<>>, result |-> FALSE]
    ELSE LET top == Top(stack)
             rest == Front(stack)
         IN  IF rest # <<>>
             THEN [stack |-> SetTopActive(rest, TRUE), cur |-> NullRoute,
                   trace |-> << <<"onExit", top.id>>, <<"destroy", top.id>>,
                                <<"onEnter", Top(rest).id>> >>,
                   result |-> TRUE]
             ELSE [stack |-> rest, cur |-> cur,
                   trace |-> << <<"onExit", top.id>>, <<"destroy", top.id>> >>,
                   result |-> TRUE]

goBack_NoEnter(stack, cur) ==
    IF ~canGoBack(stack)
    THEN [stack |-> stack, cur |-> cur, trace |-> <<>>, result |-> FALSE]
    ELSE [stack |-> Front(stack), cur |-> NullRoute,
          trace |-> << <<"onExit", Top(stack).id>>, <<"destroy", Top(stack).id>> >>,
          result |-> TRUE]

\* goBack() on the router state (stack, cur)
goBack(stack, cur) ==
    IF ~canGoBack(stack)
    THEN [stack |-> stack, cur |-> cur, trace |-> <<>>, result |-> FALSE]
    ELSE LET top == Top(stack)
             rest == Front(stack)
         IN  IF rest # <<>>
             THEN [stack |-> SetTopActive(rest, TRUE), cur |-> NullRoute,
                   trace |-> << <<"onExit", top.id>>, <<"destroy", top.id>>,
                                <<"onEnter", Top(rest).id>> >>,
                   result |-> TRUE]
             ELSE [stack |-> rest, cur |-> cur,
                   trace |-> << <<"onExit", top.id>>, <<"destroy", top.id>> >>,
                   result |-> TRUE]

NavGoBack ==
    /\ navPhase = "running"
    /\ \E out \in {goBack(m_stack, m_currentRoute)} :
           /\ m_stack' = out.stack
           /\ m_currentRoute' = out.cur
           /\ callTrace' = out.trace
           /\ lastCall' = [op |-> "goBack", path |-> NullPath, clearStack |-> FALSE,
                           returned |-> TRUE, result |-> out.result, denied |-> FALSE,
                           factoryFailed |-> FALSE]
    /\ UNCHANGED <<navPhase, m_routes, m_rootRoute, nextPageId>>
    /\ lastRegistered' = NoRegistration
    /\ UNCHANGED otherVarsOfNav

\* the range-for of reset(): delete every page, bottom first
ResetTrace(stack) == [i \in DOMAIN stack |-> <<"destroy", stack[i].id>>]

\* reset(): destroy the stack, then navigateTo("/", true) when a root exists
NavReset(allow, factoryOk) ==
    /\ navPhase = "running"
    /\ \E out \in {IF m_rootRoute # NullRoute
                  THEN navigateTo(m_routes, <<>>, NullRoute, nextPageId,
                                  "/", TRUE, allow, factoryOk, {<<"/", TRUE>>})
                  ELSE NavOutcome(<<>>, NullRoute, nextPageId, <<>>, TRUE, FALSE, FALSE)} :
           /\ WithinBounds(out)
           /\ m_stack' = out.stack
           /\ m_currentRoute' = out.cur
           /\ nextPageId' = out.nextId
           /\ callTrace' = ResetTrace(m_stack) \o out.trace
           /\ lastCall' = CallRecord("reset", "/", TRUE, out,
                                     GuardRefuses(m_routes, "/", allow))
           /\ navPhase' = IF out.returned THEN "running" ELSE "hung"
    /\ UNCHANGED <<m_routes, m_rootRoute>>
    /\ lastRegistered' = NoRegistration
    /\ UNCHANGED otherVarsOfNav

InitNav ==
    /\ navPhase = "setup"
    /\ m_routes = <<>>
    /\ m_stack = <<>>
    /\ m_currentRoute = NullRoute
    /\ m_rootRoute = NullRoute
    /\ nextPageId = 1
    /\ lastCall = [op |-> "none", path |-> NullPath, clearStack |-> FALSE,
                   returned |-> TRUE, result |-> FALSE, denied |-> FALSE,
                   factoryFailed |-> FALSE]
    /\ callTrace = <<>>
    /\ lastRegistered = NoRegistration

GuardAnswers == [Paths -> BOOLEAN]
\* the routes offered to registerRoute: every path with every guard.  The
\* requiresAuth flag is read by canActivateRoute only when no guard is
\* attached; as in main.cpp the root requires authentication and the other
\* unguarded route does not
RouteInputs ==
    {Route(p, NoGuard, p = "/") : p \in Paths}
        \cup {Route(p, g, TRUE) : p \in Paths, g \in Paths \cup {UnknownPath}}
NavPaths == Paths \cup {UnknownPath, NullPath}

NextNav ==
    \/ \E r \in RouteInputs : RegisterRoute(r)
    \/ \E allow \in GuardAnswers, ok \in BOOLEAN : NavInit(allow, ok)
    \/ \E p \in NavPaths, c \in BOOLEAN, allow \in GuardAnswers, ok \in BOOLEAN :
          NavNavigateTo(p, c, allow, ok)
    \/ NavGoBack
    \/ \E allow \in GuardAnswers, ok \in BOOLEAN : NavReset(allow, ok)

(* ========================== FrameBuffer =============================== *)

Min(a, b) == IF a < b THEN a ELSE b
Max(a, b) == IF a > b THEN a ELSE b

\* sprites are known by identity; nullptr is NullSprite
NullSprite == 0
FrontSprite == 1
BackSprite == 2

DirtyRegion(x, y, width, height, dirty) ==
    [x |-> x, y |-> y, width |-> width, height |-> height, dirty |-> dirty]

\* the clamp without its right and bottom edge tests
clampRect_NoFarEdge(x, y, width, height) ==
    LET w1 == IF x < 0 THEN Int16(width + x) ELSE width
        x1 == IF x < 0 THEN 0 ELSE x
        h1 == IF y < 0 THEN Int16(height + y) ELSE height
        y1 == IF y < 0 THEN 0 ELSE y
    IN  [x |-> x1, y |-> y1, width |-> w1, height |-> h1]

\* markDirty, "Clamp to screen bounds": the four statements on the int16_t
\* parameters; the sums of the comparisons are computed in int
clampRect(x, y, width, height) ==
    LET w1 == IF x < 0 THEN Int16(width + x) ELSE width
        x1 == IF x < 0 THEN 0 ELSE x
        h1 == IF y < 0 THEN Int16(height + y) ELSE height
        y1 == IF y < 0 THEN 0 ELSE y
        w2 == IF x1 + w1 > SCREEN_WIDTH THEN Int16(SCREEN_WIDTH - x1) ELSE w1
        h2 == IF y1 + h1 > SCREEN_HEIGHT THEN Int16(SCREEN_HEIGHT - y1) ELSE h1
    IN  [x |-> x1, y |-> y1, width |-> w2, height |-> h2]

\* a merge that keeps the larger width and height instead of the far corner
mergeRegion_LargerSize(region, c) ==
    IF ~region.dirty
    THEN DirtyRegion(c.x, c.y, c.width, c.height, TRUE)
    ELSE DirtyRegion(Int16(Min(region.x, c.x)), Int16(Min(region.y, c.y)),
                     Int16(Max(region.width, c.width)),
                     Int16(Max(region.height, c.height)), TRUE)

\* markDirty, "Expand dirty region to include this area"
mergeRegion(region, c) ==
    IF ~region.dirty
    THEN DirtyRegion(c.x, c.y, c.width, c.height, TRUE)
    ELSE LET x1 == Int16(Min(region.x, c.x))
             y1 == Int16(Min(region.y, c.y))
             x2 == Int16(Max(region.x + region.width, c.x + c.width))
             y2 == Int16(Max(region.y + region.height, c.y + c.height))
         IN  DirtyRegion(x1, y1, Int16(x2 - x1), Int16(y2 - y1), TRUE)

markDirty(region, tracking, x, y, width, height) ==
    IF ~tracking THEN region
    ELSE LET c == clampRect(x, y, width, height)
         IN  IF c.width <= 0 \/ c.height <= 0 THEN region
             ELSE mergeRegion(region, c)

\* markAllDirty made to respect the tracking switch as markDirty does
markAllDirty_Tracked(region, tracking) ==
    IF ~tracking THEN region
    ELSE DirtyRegion(0, 0, SCREEN_WIDTH, SCREEN_HEIGHT, TRUE)

markAllDirty(region, tracking) ==
    DirtyRegion(0, 0, SCREEN_WIDTH, SCREEN_HEIGHT, TRUE)

clearDirtyFlags(region) == [region EXCEPT !.dirty = FALSE]

swapBuffers(front, back) == [front |-> back, back |-> front]

\* what pushSprite sent to the panel: nothing, the whole sprite, or a rectangle
Flush(kind, sprite, x, y, width, height) ==
    [kind |-> kind, sprite |-> sprite, x |-> x, y |-> y,
     width |-> width, height |-> height]
NoFlush == Flush("none", NullSprite, 0, 0, 0, 0)
FullFlush(sprite) == Flush("full", sprite, 0, 0, SCREEN_WIDTH, SCREEN_HEIGHT)

FrameOutcome(front, back, region, flush) ==
    [front |-> front, back |-> back, region |-> region, flush |-> flush]

\* an endFrame whose full update depends on the argument only
endFrame_IgnoreTracking(front, back, region, tracking, fullUpdate) ==
    LET s == swapBuffers(front, back)
    IN  IF fullUpdate
        THEN FrameOutcome(s.front, s.back, region, FullFlush(s.front))
        ELSE IF region.dirty
             THEN FrameOutcome(s.front, s.back, clearDirtyFlags(region),
                      Flush("rect", s.front, region.x, region.y,
                            region.width, region.height))
             ELSE FrameOutcome(s.front, s.back, region, NoFlush)

\* an endFrame that pushes the front sprite before exchanging the two
endFrame_PushBeforeSwap(front, back, region, tracking, fullUpdate) ==
    LET s == swapBuffers(front, back)
    IN  IF fullUpdate \/ ~tracking
        THEN FrameOutcome(s.front, s.back, region, FullFlush(front))
        ELSE IF region.dirty
             THEN FrameOutcome(s.front, s.back, clearDirtyFlags(region),
                      Flush("rect", front, region.x, region.y,
                            region.width, region.height))
             ELSE FrameOutcome(s.front, s.back, region, NoFlush)

\* endFrame on an initialised buffer: swapBuffers, then the push
endFrame(front, back, region, tracking, fullUpdate) ==
    LET s == swapBuffers(front, back)
    IN  IF fullUpdate \/ ~tracking
        THEN FrameOutcome(s.front, s.back, region, FullFlush(s.front))
        ELSE IF region.dirty
             THEN FrameOutcome(s.front, s.back, clearDirtyFlags(region),
                      Flush("rect", s.front, region.x, region.y,
                            region.width, region.height))
             ELSE FrameOutcome(s.front, s.back, region, NoFlush)

FrameOp(op, args) == [op |-> op, args |-> args]

\* the bounding box kept beside the program's rectangle, by its corners
UnionBox(valid, empty, x1, y1, x2, y2) ==
    [valid |-> valid, empty |-> empty, x1 |-> x1, y1 |-> y1, x2 |-> x2, y2 |-> y2]
\* nothing marked since the flag was cleared
EmptyUnion == UnionBox(TRUE, TRUE, 0, 0, 0, 0)
\* the flag was set by something other than a markDirty issued with tracking on
NoUnion == UnionBox(FALSE, TRUE, 0, 0, 0, 0)

AddToUnion(u, c) ==
    IF ~u.valid \/ c.width <= 0 \/ c.height <= 0 THEN u
    ELSE IF u.empty THEN UnionBox(TRUE, FALSE, c.x, c.y, c.x + c.width, c.y + c.height)
    ELSE UnionBox(TRUE, FALSE, Min(u.x1, c.x), Min(u.y1, c.y),
                  Max(u.x2, c.x + c.width), Max(u.y2, c.y + c.height))

\* FrameBuffer::init(); each createSprite may fail to allocate
FrameInit(frontOk, backOk) ==
    /\ IF m_initialized
       THEN UNCHANGED <<m_initialized, m_frontBuffer, m_backBuffer>>
       ELSE IF frontOk /\ backOk
            THEN /\ m_frontBuffer' = FrontSprite
                 /\ m_backBuffer' = BackSprite
                 /\ m_initialized' = TRUE
            ELSE /\ m_frontBuffer' = NullSprite
                 /\ m_backBuffer' = NullSprite
                 /\ m_initialized' = FALSE
    /\ fbLastOp' = FrameOp("init", <<frontOk, backOk>>)
    /\ fbFlush' = NoFlush
    /\ UNCHANGED <<m_dirtyRegion, m_dirtyTracking, m_frameCount, fbUnion, fbSwaps>>
    /\ UNCHANGED otherVarsOfFrame

FrameEndFrame(fullUpdate) ==
    /\ m_frameCount < MaxFrames
    /\ fbLastOp' = FrameOp("endFrame", <<fullUpdate>>)
    /\ IF ~m_initialized
       THEN /\ fbFlush' = NoFlush
            /\ UNCHANGED <<m_frontBuffer, m_backBuffer, m_dirtyRegion,
                           m_frameCount, fbUnion, fbSwaps>>
       ELSE \E out \in {endFrame(m_frontBuffer, m_backBuffer, m_dirtyRegion,
                                 m_dirtyTracking, fullUpdate)} :
                /\ m_frontBuffer' = out.front
                /\ m_backBuffer' = out.back
                /\ m_dirtyRegion' = out.region
                /\ fbFlush' = out.flush
                /\ m_frameCount' = m_frameCount + 1
                /\ fbUnion' = IF m_dirtyRegion.dirty /\ ~out.region.dirty
                              THEN EmptyUnion ELSE fbUnion
                /\ fbSwaps' = << <<m_frontBuffer, m_backBuffer>>, fbSwaps[1] >>
    /\ UNCHANGED <<m_initialized, m_dirtyTracking>>
    /\ UNCHANGED otherVarsOfFrame

FrameMarkDirty(x, y, width, height) ==
    /\ m_dirtyRegion' = markDirty(m_dirtyRegion, m_dirtyTracking, x, y, width, height)
    /\ fbLastOp' = FrameOp("markDirty", <<x, y, width, height>>)
    /\ fbUnion' = IF ~m_dirtyTracking THEN NoUnion
                  ELSE AddToUnion(fbUnion, clampRect(x, y, width, height))
    /\ fbFlush' = NoFlush
    /\ UNCHANGED <<m_initialized, m_frontBuffer, m_backBuffer, m_dirtyTracking,
                   m_frameCount, fbSwaps>>
    /\ UNCHANGED otherVarsOfFrame

FrameMarkAllDirty ==
    /\ m_dirtyRegion' = markAllDirty(m_dirtyRegion, m_dirtyTracking)
    /\ fbLastOp' = FrameOp("markAllDirty", <<>>)
    /\ fbUnion' = NoUnion
    /\ fbFlush' = NoFlush
    /\ UNCHANGED <<m_initialized, m_frontBuffer, m_backBuffer, m_dirtyTracking,
                   m_frameCount, fbSwaps>>
    /\ UNCHANGED otherVarsOfFrame

FrameClearDirtyFlags ==
    /\ m_dirtyRegion' = clearDirtyFlags(m_dirtyRegion)
    /\ fbLastOp' = FrameOp("clearDirtyFlags", <<>>)
    /\ fbUnion' = EmptyUnion
    /\ fbFlush' = NoFlush
    /\ UNCHANGED <<m_initialized, m_frontBuffer, m_backBuffer, m_dirtyTracking,
                   m_frameCount, fbSwaps>>
    /\ UNCHANGED otherVarsOfFrame

FrameSetDirtyTracking(enabled) ==
    /\ m_dirtyTracking' = enabled
    /\ fbLastOp' = FrameOp("setDirtyTracking", <<enabled>>)
    /\ fbFlush' = NoFlush
    /\ UNCHANGED <<m_initialized, m_frontBuffer, m_backBuffer, m_dirtyRegion,
                   m_frameCount, fbUnion, fbSwaps>>
    /\ UNCHANGED otherVarsOfFrame

\* the state the constructor leaves
InitFrame ==
    /\ m_initialized = FALSE
    /\ m_frontBuffer = NullSprite
    /\ m_backBuffer = NullSprite
    /\ m_dirtyRegion = DirtyRegion(0, 0, SCREEN_WIDTH, SCREEN_HEIGHT, TRUE)
    /\ m_dirtyTracking = TRUE
    /\ m_frameCount = 0
    /\ fbLastOp = FrameOp("FrameBuffer", <<>>)
    /\ fbFlush = NoFlush
    /\ fbUnion = NoUnion
    /\ fbSwaps = << <<NullSprite, NullSprite>>, <<NullSprite, NullSprite>> >>

NextFrame ==
    \/ \E frontOk, backOk \in BOOLEAN : FrameInit(frontOk, backOk)
    \/ \E fullUpdate \in BOOLEAN : FrameEndFrame(fullUpdate)
    \/ \E x \in DirtyXs, y \in DirtyYs, w \in DirtyWidths, h \in DirtyHeights :
           FrameMarkDirty(x, y, w, h)
    \/ FrameMarkAllDirty
    \/ FrameClearDirtyFlags
    \/ \E enabled \in BOOLEAN : FrameSetDirtyTracking(enabled)

(* ========================= CircularSlider ============================= *)

\* float values are kept as integers counted in 1/Unit: with integer range
\* ends every value the mapping from an angle produces (a multiple of
\* (max - min) / 270) and one interpolation step of 20% are whole numbers
Unit == 1350

\* the instance built by HomeAssistantView: centre of the screen, radii 100/80
SliderCenterX == 180
SliderCenterY == 180
SliderRadius == 100
SliderInnerRadius == 80
m_startAngle == 135
m_endAngle == 45

\* inputs: ranges (min < max), values to set, touch samples <<pressed, x, y>>
SliderRanges == {<<0, 100>>, <<0, 10>>, <<20, 60>>}
SliderValues == {-10, 0, 30, 50, 100, 150}
SliderTouches ==
    {<<TRUE, 90, 180>>, <<TRUE, 90, 179>>, <<TRUE, 90, 181>>,
     <<TRUE, 180, 270>>, <<TRUE, 270, 180>>, <<TRUE, 180, 90>>,
     <<TRUE, 116, 116>>, <<TRUE, 244, 116>>, <<TRUE, 180, 180>>,
     <<TRUE, 258, 135>>, <<TRUE, 258, 225>>,
     <<FALSE, 90, 180>>, <<FALSE, 0, 0>>}

\* quotient rounded toward zero, as a conversion of a float to an integer does
TruncDiv(a, b) == IF a >= 0 THEN a \div b ELSE -((-a) \div b)

normalizeAngle(angle) == angle % 360

\* tan(k degrees) * 100000 for k = 0..89
TanTable ==
    << 0, 1746, 3492, 5241, 6993, 8749, 10510, 12278, 14054, 15838,
       17633, 19438, 21256, 23087, 24933, 26795, 28675, 30573, 32492, 34433,
       36397, 38386, 40403, 42447, 44523, 46631, 48773, 50953, 53171, 55431,
       57735, 60086, 62487, 64941, 67451, 70021, 72654, 75355, 78129, 80978,
       83910, 86929, 90040, 93252, 96569, 100000, 103553, 107237, 111061, 115037,
       119175, 123490, 127994, 132704, 137638, 142815, 148256, 153986, 160033, 166428,
       173205, 180405, 188073, 196261, 205030, 214451, 224604, 235585, 247509, 260509,
       274748, 290421, 307768, 327085, 348741, 373205, 401078, 433148, 470463, 514455,
       567128, 631375, 711537, 814435, 951436, 1143005, 1430067, 1908114, 2863625, 5728996 >>

\* whole degrees of the angle whose tangent is opposite/adjacent, both >= 0
QuadrantDeg(adjacent, opposite) ==
    IF adjacent = 0 THEN 90
    ELSE CHOOSE k \in 0..89 :
            /\ TanTable[k + 1] * adjacent <= opposite * 100000
            /\ k < 89 => TanTable[k + 2] * adjacent > opposite * 100000

\* (int16_t)(atan2(dy, dx) * RAD_TO_DEG): degrees in -180..180, the fraction
\* dropped toward zero
atan2Deg(dy, dx) ==
    IF dy = 0 THEN (IF dx < 0 THEN 180 ELSE 0)
    ELSE LET a == IF dx > 0 THEN QuadrantDeg(dx, Abs(dy))
                  ELSE 90 + QuadrantDeg(Abs(dy), -dx)
         IN  IF dy > 0 THEN a ELSE -a

\* distance(center, point) within [m_innerRadius, m_radius], by the squares
contains(x, y) ==
    LET dx == Int16(x - SliderCenterX)
        dy == Int16(y - SliderCenterY)
        d2 == dx * dx + dy * dy
    IN  d2 >= SliderInnerRadius * SliderInnerRadius /\ d2 <= SliderRadius * SliderRadius

\* the touch angle left in the frame of atan2, where 0 is right
touchAngleDeg_NoQuarterTurn(touchX, touchY) ==
    LET dx == Int16(touchX - SliderCenterX)
        dy == Int16(touchY - SliderCenterY)
    IN  normalizeAngle(atan2Deg(dy, dx))

\* the angle of the touch in the frame where 0 is up
touchAngleDeg(touchX, touchY) ==
    LET dx == Int16(touchX - SliderCenterX)
        dy == Int16(touchY - SliderCenterY)
    IN  normalizeAngle(Int16(atan2Deg(dy, dx) + 90))

\* degrees past m_startAngle, before the clamp of the dead zone
relativeAngleOf(angleDeg) ==
    IF angleDeg >= m_startAngle THEN angleDeg - m_startAngle
    ELSE (360 - m_startAngle) + angleDeg

\* the angle taken from the touch without the clamp of the dead zone
calculateAngleFromTouch_NoSnap(touchX, touchY) ==
    normalizeAngle(m_startAngle + relativeAngleOf(touchAngleDeg(touchX, touchY)))

\* the new m_currentAngle
calculateAngleFromTouch(touchX, touchY) ==
    LET rel == relativeAngleOf(touchAngleDeg(touchX, touchY))
        clamped == IF rel > 270 THEN (IF rel > 315 THEN 270 ELSE 0) ELSE rel
    IN  normalizeAngle(m_startAngle + clamped)

\* a mapping over the whole circle instead of the 270 degree sweep
calculateValueFromAngle_FullCircle(s) ==
    LET v == s.m_minValue
               + TruncDiv(relativeAngleOf(s.m_currentAngle) * (s.m_maxValue - s.m_minValue), 360)
    IN  [s EXCEPT !.m_targetValue = v, !.m_value = v]

\* a mapping that moves the animation target and leaves the shown value to
\* the interpolation
calculateValueFromAngle_TargetOnly(s) ==
    LET v == s.m_minValue
               + TruncDiv(relativeAngleOf(s.m_currentAngle) * (s.m_maxValue - s.m_minValue), 270)
    IN  [s EXCEPT !.m_targetValue = v]

calculateValueFromAngle(s) ==
    LET v == s.m_minValue
               + TruncDiv(relativeAngleOf(s.m_currentAngle) * (s.m_maxValue - s.m_minValue), 270)
    IN  [s EXCEPT !.m_targetValue = v, !.m_value = v]

setRange(s, min, max) ==
    LET r == [s EXCEPT !.m_minValue = min, !.m_maxValue = max]
        lo == IF r.m_value < min THEN [r EXCEPT !.m_value = min] ELSE r
        hi == IF lo.m_value > max THEN [lo EXCEPT !.m_value = max] ELSE lo
    IN  calculateValueFromAngle(hi)

\* a setValue that leaves the animation target alone
setValue_KeepTarget(s, value) ==
    LET lo == IF value < s.m_minValue THEN s.m_minValue ELSE value
        v == IF lo > s.m_maxValue THEN s.m_maxValue ELSE lo
    IN  IF s.m_value # v
        THEN [s EXCEPT !.m_value = v,
                       !.m_currentAngle = normalizeAngle(Int16(m_startAngle
                           + TruncDiv(270 * (v - s.m_minValue), s.m_maxValue - s.m_minValue))),
                       !.m_hasChanged = TRUE]
        ELSE s

setValue(s, value) ==
    LET lo == IF value < s.m_minValue THEN s.m_minValue ELSE value
        v == IF lo > s.m_maxValue THEN s.m_maxValue ELSE lo
    IN  IF s.m_value # v
        THEN [s EXCEPT !.m_value = v, !.m_targetValue = v,
                       !.m_currentAngle = normalizeAngle(Int16(m_startAngle
                           + TruncDiv(270 * (v - s.m_minValue), s.m_maxValue - s.m_minValue))),
                       !.m_hasChanged = TRUE]
        ELSE s

setEnabled(s, enabled) ==
    IF enabled THEN [s EXCEPT !.m_enabled = TRUE]
    ELSE [s EXCEPT !.m_enabled = FALSE, !.m_isDragging = FALSE]

\* update, "Smooth value animation": a fifth of the difference, the target
\* itself when the difference is below 0.1
smoothValue(s) ==
    IF s.m_value # s.m_targetValue
    THEN LET diff == s.m_targetValue - s.m_value
         IN  IF 10 * Abs(diff) < Unit
             THEN [s EXCEPT !.m_value = s.m_targetValue]
             ELSE [s EXCEPT !.m_value = s.m_value + TruncDiv(diff, 5)]
    ELSE s

sliderUpdate(s, pressed, x, y) ==
    IF ~s.m_enabled THEN s
    ELSE IF pressed /\ contains(x, y)
         THEN smoothValue([calculateValueFromAngle(
                              [s EXCEPT !.m_isDragging = TRUE,
                                        !.m_currentAngle = calculateAngleFromTouch(x, y)])
                            EXCEPT !.m_hasChanged = TRUE])
         ELSE IF s.m_isDragging /\ ~pressed
              THEN smoothValue([s EXCEPT !.m_isDragging = FALSE])
              ELSE smoothValue(s)

SliderOp(op, args) == [op |-> op, args |-> args]

SliderSetRange(min, max) ==
    /\ slider' = setRange(slider, min * Unit, max * Unit)
    /\ sliderLastOp' = SliderOp("setRange", <<min, max>>)
    /\ UNCHANGED otherVarsOfSlider

SliderSetValue(value) ==
    /\ slider' = setValue(slider, value * Unit)
    /\ sliderLastOp' = SliderOp("setValue", <<value>>)
    /\ UNCHANGED otherVarsOfSlider

SliderSetEnabled(enabled) ==
    /\ slider' = setEnabled(slider, enabled)
    /\ sliderLastOp' = SliderOp("setEnabled", <<enabled>>)
    /\ UNCHANGED otherVarsOfSlider

SliderUpdate(touch) ==
    /\ slider' = sliderUpdate(slider, touch[1], touch[2], touch[3])
    /\ sliderLastOp' = SliderOp("update", touch)
    /\ UNCHANGED otherVarsOfSlider

\* render draws and then lowers m_hasChanged
SliderRender ==
    /\ slider' = [slider EXCEPT !.m_hasChanged = FALSE]
    /\ sliderLastOp' = SliderOp("render", <<>>)
    /\ UNCHANGED otherVarsOfSlider

\* the state the constructor leaves
InitSlider ==
    /\ slider = [m_value |-> 0, m_minValue |-> 0, m_maxValue |-> 100 * Unit,
                 m_targetValue |-> 0, m_currentAngle |-> 135,
                 m_enabled |-> TRUE, m_isDragging |-> FALSE, m_hasChanged |-> FALSE]
    /\ sliderLastOp = SliderOp("CircularSlider", <<>>)

NextSlider ==
    \/ \E r \in SliderRanges : SliderSetRange(r[1], r[2])
    \/ \E v \in SliderValues : SliderSetValue(v)
    \/ \E e \in BOOLEAN : SliderSetEnabled(e)
    \/ \E t \in SliderTouches : SliderUpdate(t)
    \/ SliderRender

(* ========================== HexagonalGrid ============================= *)

RING_ITEMS == <<1, 6, 12, 18, 24, 30>>

\* inputs: the items added (label, with or without an onTap callback), the
\* indices removed, tap coordinates and drag amounts
GridItemInputs == {[label |-> "a", onTap |-> TRUE], [label |-> "b", onTap |-> FALSE]}
GridRemoveIndices == {-1, 0, 1}
GridTaps == {<<180, 180>>, <<0, 150>>, <<257, 225>>, <<300, 20>>}
GridDrags == {<<30, 0>>, <<-30, 0>>, <<0, 30>>, <<32767, -32768>>}
\* constructor arguments <<itemRadius, spacing>>: the defaults of Config.h
\* and a grid whose first ring does not fit on the screen
GridConfigs == {<<40, 10>>, <<100, 10>>}
\* offsets handed to setScrollOffset
GridOffsets == {<<0, 0>>, <<32767, -32768>>}

\* sin(k degrees) * 100000 for k = 0..90
SinTable ==
    << 0, 1745, 3490, 5234, 6976, 8716, 10453, 12187, 13917, 15643,
       17365, 19081, 20791, 22495, 24192, 25882, 27564, 29237, 30902, 32557,
       34202, 35837, 37461, 39073, 40674, 42262, 43837, 45399, 46947, 48481,
       50000, 51504, 52992, 54464, 55919, 57358, 58779, 60182, 61566, 62932,
       64279, 65606, 66913, 68200, 69466, 70711, 71934, 73135, 74314, 75471,
       76604, 77715, 78801, 79864, 80902, 81915, 82904, 83867, 84805, 85717,
       86603, 87462, 88295, 89101, 89879, 90631, 91355, 92050, 92718, 93358,
       93969, 94552, 95106, 95630, 96126, 96593, 97030, 97437, 97815, 98163,
       98481, 98769, 99027, 99255, 99452, 99619, 99756, 99863, 99939, 99985,
       100000 >>

SinDeg(deg) ==
    LET d == deg % 360
    IN  IF d <= 90 THEN SinTable[d + 1]
        ELSE IF d <= 180 THEN SinTable[180 - d + 1]
        ELSE IF d <= 270 THEN -SinTable[d - 180 + 1]
        ELSE -SinTable[360 - d + 1]

CosDeg(deg) == SinDeg(deg + 90)

\* (int16_t)(radius * cos(angle)) for t = cos(angle) * 100000: the product
\* with its fraction dropped. Where the exact product is a whole number
\* other than 0 (cos = 1/2 or 1) the float product may fall just short of
\* it; slack = 1 follows the builds where it does.
FloatTrunc(radius, t, slack) ==
    LET exact == TruncDiv(radius * t, 100000)
    IN  IF (radius * t) % 100000 = 0 /\ exact # 0 /\ Abs(t) \in {50000, 100000}
        THEN (IF exact > 0 THEN exact - slack ELSE exact + slack)
        ELSE exact

\* the ring found by the loop over RING_ITEMS: <<ring, itemsBeforeRing>>;
\* when the loop ends without a break, ring stays 0 and itemsBeforeRing is
\* the sum of the table
RECURSIVE FindRing(_, _, _)
FindRing(index, r, cumulativeBefore) ==
    IF r > Len(RING_ITEMS) THEN <<0, cumulativeBefore>>
    ELSE IF index < cumulativeBefore + RING_ITEMS[r] THEN <<r - 1, cumulativeBefore>>
    ELSE FindRing(index, r + 1, cumulativeBefore + RING_ITEMS[r])

\* a position with the two axes exchanged and y pointing up
getHexPosition_FromTop(index, centerX, centerY, hexDistance, slack) ==
    IF index = 0 THEN <<centerX, centerY>>
    ELSE LET found == FindRing(index, 1, 0)
             ring == found[1]
             positionInRing == index - found[2]
             itemsInRing == RING_ITEMS[ring + 1]
             deg == (360 * positionInRing) \div itemsInRing + 30
             radius == ring * hexDistance
         IN  << Int16(centerX + FloatTrunc(radius, SinDeg(deg), slack)),
                Int16(centerY - FloatTrunc(radius, CosDeg(deg), slack)) >>

\* angle = 2 pi positionInRing / itemsInRing + pi / 6, here in degrees
getHexPosition(index, centerX, centerY, hexDistance, slack) ==
    IF index = 0 THEN <<centerX, centerY>>
    ELSE LET found == FindRing(index, 1, 0)
             ring == found[1]
             positionInRing == index - found[2]
             itemsInRing == RING_ITEMS[ring + 1]
             deg == (360 * positionInRing) \div itemsInRing + 30
             radius == ring * hexDistance
         IN  << Int16(centerX + FloatTrunc(radius, CosDeg(deg), slack)),
                Int16(centerY + FloatTrunc(radius, SinDeg(deg), slack)) >>

m_centerX == 180
m_centerY == 180
m_hexDistance == (m_itemRadius * 2) + m_spacing

GridItem(label, onTap, x, y, index, visible) ==
    [label |-> label, onTap |-> onTap, x |-> x, y |-> y,
     index |-> index, visible |-> visible]

calculateItemPositions(items) ==
    [i \in DOMAIN items |->
        LET p == getHexPosition(i - 1, m_centerX, m_centerY, m_hexDistance, fpSlack)
        IN  [items[i] EXCEPT !.x = p[1], !.y = p[2]]]

SeqMin(items, f(_)) == CHOOSE v \in {f(items[i]) : i \in DOMAIN items} :
                          \A i \in DOMAIN items : v <= f(items[i])
SeqMax(items, f(_)) == CHOOSE v \in {f(items[i]) : i \in DOMAIN items} :
                          \A i \in DOMAIN items : v >= f(items[i])

\* <<m_maxScrollX, m_maxScrollY>>
updateScrollBounds(items) ==
    IF items = <<>> THEN <<0, 0>>
    ELSE LET X(item) == item.x
             Y(item) == item.y
             gridWidth == Int16(SeqMax(items, X) - SeqMin(items, X) + (m_itemRadius * 2))
             gridHeight == Int16(SeqMax(items, Y) - SeqMin(items, Y) + (m_itemRadius * 2))
         IN  << Int16(Max(0, TruncDiv(gridWidth - SCREEN_WIDTH, 2))),
                Int16(Max(0, TruncDiv(gridHeight - SCREEN_HEIGHT, 2))) >>

addItem(items, item) ==
    calculateItemPositions(
        Append(items, GridItem(item.label, item.onTap, 0, 0, Len(items), FALSE)))

RemoveAt(items, index) ==
    [i \in 1..(Len(items) - 1) |-> IF i <= index THEN items[i] ELSE items[i + 1]]

\* a removal that leaves the indices of the remaining items as they were
removeItem_NoReindex(items, index) ==
    IF index >= 0 /\ index < Len(items)
    THEN calculateItemPositions(RemoveAt(items, index))
    ELSE items

\* a removal that leaves the positions of the remaining items as they were
removeItem_NoReposition(items, index) ==
    IF index >= 0 /\ index < Len(items)
    THEN LET erased == RemoveAt(items, index)
         IN  [i \in DOMAIN erased |-> [erased[i] EXCEPT !.index = i - 1]]
    ELSE items

removeItem(items, index) ==
    IF index >= 0 /\ index < Len(items)
    THEN LET erased == RemoveAt(items, index)
         IN  calculateItemPositions(
                 [i \in DOMAIN erased |-> [erased[i] EXCEPT !.index = i - 1]])
    ELSE items

isItemVisible(item, scrollX, scrollY) ==
    LET screenX == Int16(item.x + scrollX)
        screenY == Int16(item.y + scrollY)
        margin == Int16(m_itemRadius + 10)
    IN  /\ screenX >= -margin /\ screenX < SCREEN_WIDTH + margin
        /\ screenY >= -margin /\ screenY < SCREEN_HEIGHT + margin

\* the test of getItemAtPosition on one item; distSquared is an int16_t
HitsItem(item, scrollX, scrollY, x, y) ==
    LET screenX == Int16(item.x + scrollX)
        screenY == Int16(item.y + scrollY)
        dx == Int16(x - screenX)
        dy == Int16(y - screenY)
        distSquared == Int16(dx * dx + dy * dy)
    IN  distSquared <= m_itemRadius * m_itemRadius

\* index of the item returned, -1 for nullptr
getItemAtPosition(items, scrollX, scrollY, x, y) ==
    LET hits == {i \in DOMAIN items :
                    items[i].visible /\ HitsItem(items[i], scrollX, scrollY, x, y)}
    IN  IF hits = {} THEN -1
        ELSE (CHOOSE i \in hits : \A j \in hits : i <= j) - 1

\* m_scrollOffset after the addition and the four clamps, one axis
ClampScroll(offset, delta, maxScroll) ==
    LET moved == Int16(offset + delta)
        upper == IF moved > maxScroll THEN maxScroll ELSE moved
    IN  IF upper < -maxScroll THEN Int16(-maxScroll) ELSE upper

GridOp(op, args, hit, result) ==
    [op |-> op, args |-> args, hit |-> hit, result |-> result]

GridAddItem(item) ==
    /\ Len(m_items) < MaxItems
    /\ \E items \in {addItem(m_items, item)} :
          /\ m_items' = items
          /\ \E b \in {updateScrollBounds(items)} :
                m_maxScrollX' = b[1] /\ m_maxScrollY' = b[2]
    /\ gridLastOp' = GridOp("addItem", <<item.label>>, -1, FALSE)
    /\ UNCHANGED <<m_scrollOffsetX, m_scrollOffsetY, m_itemRadius, m_spacing, fpSlack>>
    /\ UNCHANGED otherVarsOfGrid

GridRemoveItem(index) ==
    /\ \E items \in {removeItem(m_items, index)} :
          /\ m_items' = items
          /\ IF index >= 0 /\ index < Len(m_items)
             THEN \E b \in {updateScrollBounds(items)} :
                     m_maxScrollX' = b[1] /\ m_maxScrollY' = b[2]
             ELSE UNCHANGED <<m_maxScrollX, m_maxScrollY>>
    /\ gridLastOp' = GridOp("removeItem", <<index>>, -1, FALSE)
    /\ UNCHANGED <<m_scrollOffsetX, m_scrollOffsetY, m_itemRadius, m_spacing, fpSlack>>
    /\ UNCHANGED otherVarsOfGrid

GridClear ==
    /\ m_items' = <<>>
    /\ m_scrollOffsetX' = 0
    /\ m_scrollOffsetY' = 0
    /\ gridLastOp' = GridOp("clear", <<>>, -1, FALSE)
    /\ UNCHANGED <<m_maxScrollX, m_maxScrollY, m_itemRadius, m_spacing, fpSlack>>
    /\ UNCHANGED otherVarsOfGrid

GridRender ==
    /\ m_items' = [i \in DOMAIN m_items |->
                     [m_items[i] EXCEPT !.visible =
                         isItemVisible(m_items[i], m_scrollOffsetX, m_scrollOffsetY)]]
    /\ gridLastOp' = GridOp("render", <<>>, -1, FALSE)
    /\ UNCHANGED <<m_scrollOffsetX, m_scrollOffsetY, m_maxScrollX, m_maxScrollY,
                   m_itemRadius, m_spacing, fpSlack>>
    /\ UNCHANGED otherVarsOfGrid

\* handleTap: the item found has its callback invoked when it has one
GridHandleTap(x, y) ==
    /\ \E hit \in {getItemAtPosition(m_items, m_scrollOffsetX, m_scrollOffsetY, x, y)} :
          gridLastOp' = GridOp("handleTap", <<x, y>>, hit,
                               hit >= 0 /\ m_items[hit + 1].onTap)
    /\ UNCHANGED <<m_items, m_scrollOffsetX, m_scrollOffsetY, m_maxScrollX,
                   m_maxScrollY, m_itemRadius, m_spacing, fpSlack>>
    /\ UNCHANGED otherVarsOfGrid

GridHandleDrag(deltaX, deltaY) ==
    /\ m_scrollOffsetX' = ClampScroll(m_scrollOffsetX, deltaX, m_maxScrollX)
    /\ m_scrollOffsetY' = ClampScroll(m_scrollOffsetY, deltaY, m_maxScrollY)
    /\ gridLastOp' = GridOp("handleDrag", <<deltaX, deltaY>>, -1, FALSE)
    /\ UNCHANGED <<m_items, m_maxScrollX, m_maxScrollY, m_itemRadius, m_spacing, fpSlack>>
    /\ UNCHANGED otherVarsOfGrid

\* m_scrollOffset after the assignment and the four clamps, one axis
setScrollOffset(offset, maxScroll) ==
    LET upper == IF offset > maxScroll THEN maxScroll ELSE offset
    IN  IF upper < -maxScroll THEN Int16(-maxScroll) ELSE upper

GridSetScrollOffset(x, y) ==
    /\ m_scrollOffsetX' = setScrollOffset(x, m_maxScrollX)
    /\ m_scrollOffsetY' = setScrollOffset(y, m_maxScrollY)
    /\ gridLastOp' = GridOp("setScrollOffset", <<x, y>>, -1, FALSE)
    /\ UNCHANGED <<m_items, m_maxScrollX, m_maxScrollY, m_itemRadius, m_spacing, fpSlack>>
    /\ UNCHANGED otherVarsOfGrid

\* getHexPosition applied to one index, the result kept in gridLastOp.args
GridGetHexPosition(index) ==
    /\ gridLastOp' = GridOp("getHexPosition",
                            <<index>> \o getHexPosition(index, m_centerX, m_centerY,
                                                        m_hexDistance, fpSlack),
                            -1, FALSE)
    /\ UNCHANGED <<m_items, m_scrollOffsetX, m_scrollOffsetY, m_maxScrollX,
                   m_maxScrollY, m_itemRadius, m_spacing, fpSlack>>
    /\ UNCHANGED otherVarsOfGrid

\* default arguments of the constructor (Config.h)
HEX_ITEM_RADIUS == 40
HEX_SPACING == 10

\* the state the constructor leaves when called with its default arguments,
\* as the pages call it
InitGrid ==
    /\ m_items = <<>>
    /\ m_scrollOffsetX = 0 /\ m_scrollOffsetY = 0
    /\ m_maxScrollX = 0 /\ m_maxScrollY = 0
    /\ m_itemRadius = HEX_ITEM_RADIUS /\ m_spacing = HEX_SPACING
    /\ fpSlack = 0
    /\ gridLastOp = GridOp("HexagonalGrid", <<>>, -1, FALSE)

\* the constructor called with explicit arguments, in place of the default
\* construction; slack tells how the build truncates a float product that
\* lies at a whole number
GridConstruct(itemRadius, spacing, slack) ==
    /\ gridLastOp = GridOp("HexagonalGrid", <<>>, -1, FALSE)
    /\ m_items' = <<>>
    /\ m_scrollOffsetX' = 0 /\ m_scrollOffsetY' = 0
    /\ m_maxScrollX' = 0 /\ m_maxScrollY' = 0
    /\ m_itemRadius' = itemRadius /\ m_spacing' = spacing
    /\ fpSlack' = slack
    /\ gridLastOp' = GridOp("HexagonalGrid", <<itemRadius, spacing, slack>>, -1, FALSE)
    /\ UNCHANGED otherVarsOfGrid

NextGrid ==
    \/ \E c \in GridConfigs, slack \in {0, 1} : GridConstruct(c[1], c[2], slack)
    \/ \E item \in GridItemInputs : GridAddItem(item)
    \/ \E index \in GridRemoveIndices : GridRemoveItem(index)
    \/ GridClear
    \/ GridRender
    \/ \E t \in GridTaps : GridHandleTap(t[1], t[2])
    \/ \E d \in GridDrags : GridHandleDrag(d[1], d[2])
    \/ \E o \in GridOffsets : GridSetScrollOffset(o[1], o[2])

NextHexPosition ==
    \/ \E c \in GridConfigs, slack \in {0, 1} : GridConstruct(c[1], c[2], slack)
    \/ \E index \in 0..MaxIndex : GridGetHexPosition(index)

(* ================= main.cpp: setup, loop and the pages ================= *)

\* pages created in one run of the shell
MaxShellPages == 6
SWIPE_THRESHOLD == 50
\* frame intervals and contact points of the loop: a column of the panel, so
\* that a stroke between the two points is a vertical swipe of 100 px
ShellTimeSteps == {100, 500}
ShellPoints == {<<180, 300>>, <<180, 200>>}
ShellIdle == <<0, 0>>

\* registerRoutes(): the route table, in registration order
ShellRoutes ==
    << Route("/lock", NoGuard, FALSE), Route("/login", NoGuard, FALSE),
       Route("/", NoGuard, TRUE), Route("/settings", NoGuard, TRUE),
       Route("/notification", NoGuard, TRUE), Route("/app/spotify", NoGuard, TRUE),
       Route("/app/slack", NoGuard, TRUE), Route("/app/home-assistant", NoGuard, TRUE) >>
ShellPaths == {ShellRoutes[i].path : i \in DOMAIN ShellRoutes}
\* no route has a guard: no guard answer is ever asked for
NoGuardAnswers == [p \in ShellPaths |-> TRUE]

\* what a grid item's onTap launches: the paths of HomeView's launchers, the
\* logout entry of SettingsView, a user icon of LoginView; "other" is an item
\* whose callback only logs
HomeItems == {"/app/slack", "/app/spotify", "/app/home-assistant",
              "/app/ai-assistant", "/settings"}
ItemsOf(route) ==
    IF route = "/" THEN HomeItems
    ELSE IF route = "/settings" THEN {"logout", "other"}
    ELSE IF route = "/login" THEN {"user", "other"}
    ELSE {}

\* what a handler asks of the router, the login state it leaves, and whether
\* it writes to its page after the router call (m_lastTouch = currentTouch)
Request(call, path, clearStack, auth, after) ==
    [call |-> call, path |-> path, clearStack |-> clearStack, auth |-> auth,
     after |-> after]
NoRequest(auth, after) == Request("none", NullPath, FALSE, auth, after)

\* LockView::handleTouch
LockView_handleTouch(event, auth) ==
    IF event = "SWIPE_UP"
    THEN Request("navigateTo", IF auth THEN "/" ELSE "/login", TRUE, auth, FALSE)
    ELSE NoRequest(auth, FALSE)

\* LoginView::handleTouch; a tapped user icon runs AuthService::login, which
\* logs the current user out first and fails when the user cannot be loaded
LoginView_handleTouch(event, hit, loginOk, auth) ==
    IF event = "TAP" /\ hit = "user"
    THEN IF loginOk THEN Request("navigateTo", "/", TRUE, TRUE, TRUE)
         ELSE NoRequest(FALSE, TRUE)
    ELSE NoRequest(auth, TRUE)

\* HomeView::handleTouch; the launchers call navigateTo(path)
HomeView_handleTouch(event, hit, auth) ==
    IF event = "TAP" /\ hit \in HomeItems
    THEN Request("navigateTo", hit, FALSE, auth, TRUE)
    ELSE NoRequest(auth, TRUE)

\* SettingsView::handleTouch (m_inSubMenu is never set); onLogout
SettingsView_handleTouch(event, hit, auth) ==
    IF event = "TAP" /\ hit = "logout"
    THEN Request("navigateTo", "/login", TRUE, FALSE, TRUE)
    ELSE NoRequest(auth, TRUE)

\* SlackView::handleTouch
SlackView_handleTouch(event, auth) ==
    IF event = "SWIPE_DOWN" THEN Request("goBack", NullPath, FALSE, auth, TRUE)
    ELSE NoRequest(auth, TRUE)

\* NotificationView::handleTouch
NotificationView_handleTouch(event, auth) ==
    IF event = "SWIPE_DOWN" THEN Request("goBack", NullPath, FALSE, auth, FALSE)
    ELSE NoRequest(auth, FALSE)

\* PageView::handleTouch of the page built for route; SpotifyView and
\* HomeAssistantView make no router call
handleTouch(route, event, hit, loginOk, auth) ==
    IF route = "/lock" THEN LockView_handleTouch(event, auth)
    ELSE IF route = "/login" THEN LoginView_handleTouch(event, hit, loginOk, auth)
    ELSE IF route = "/" THEN HomeView_handleTouch(event, hit, auth)
    ELSE IF route = "/settings" THEN SettingsView_handleTouch(event, hit, auth)
    ELSE IF route = "/app/slack" THEN SlackView_handleTouch(event, auth)
    ELSE IF route = "/notification" THEN NotificationView_handleTouch(event, auth)
    ELSE NoRequest(auth, TRUE)

\* the router call a handler asked for, on the router state
Served(req) ==
    IF req.call = "navigateTo"
    THEN navigateTo(m_routes, m_stack, m_currentRoute, nextPageId, req.path,
                    req.clearStack, NoGuardAnswers, TRUE, {<<req.path, req.clearStack>>})
    ELSE IF req.call = "goBack"
    THEN LET b == goBack(m_stack, m_currentRoute)
         IN  NavOutcome(b.stack, b.cur, nextPageId, b.trace, TRUE, b.result, FALSE)
    ELSE NavOutcome(m_stack, m_currentRoute, nextPageId, <<>>, TRUE, FALSE, FALSE)

Destroyed(trace, id) == \E i \in DOMAIN trace : trace[i] = <<"destroy", id>>

ShellOp(op, event, page, depth, dispatched, req, result, destroyedSelf, accessAfter) ==
    [op |-> op, event |-> event, page |-> page, depth |-> depth,
     dispatched |-> dispatched, call |-> req.call, path |-> req.path,
     result |-> result, destroyedSelf |-> destroyedSelf, accessAfter |-> accessAfter]

\* initializeSystem(): registerRoutes, NavigationController::init, then
\* navigateTo("/lock", true)
ShellSetup ==
    /\ shellPhase = "boot" /\ navPhase = "setup" /\ m_routes = <<>>
    /\ \E home \in {navigateTo(ShellRoutes, m_stack, m_currentRoute, nextPageId, "/", TRUE,
                              NoGuardAnswers, TRUE, {<<"/", TRUE>>})} :
       \E out \in {navigateTo(ShellRoutes, home.stack, home.cur, home.nextId, "/lock", TRUE,
                             NoGuardAnswers, TRUE, {<<"/lock", TRUE>>})} :
           /\ m_routes' = ShellRoutes
           /\ m_rootRoute' = "/"
           /\ m_stack' = out.stack
           /\ m_currentRoute' = out.cur
           /\ nextPageId' = out.nextId
           /\ callTrace' = home.trace \o out.trace
           /\ lastCall' = CallRecord("navigateTo", "/lock", TRUE, out, FALSE)
           /\ lastRegistered' = ShellRoutes[Len(ShellRoutes)]
           /\ navPhase' = "running"
           /\ shellPhase' = "running"
           /\ shellLastOp' = ShellOp("setup", "NONE", "none", 0, FALSE,
                                     Request("navigateTo", "/lock", TRUE, authenticated, FALSE),
                                     out.result, FALSE, FALSE)
    /\ UNCHANGED <<touchVars, authenticated>>
    /\ UNCHANGED otherVarsOfShell

\* one iteration of loop(), dt ms after the previous one: TouchController
\* update, then the event, unless NONE, goes to the top page's handleTouch.
\* hit: the grid item under the touch point; loginOk: whether the tapped user
\* can be loaded; harmed: whether a write to a deleted page damages the heap
ShellLoop(touched, x, y, dt, hit, loginOk, harmed) ==
    /\ shellPhase = "running" /\ navPhase = "running"
    /\ TouchStep(touched, x, y, dt)
    /\ IF m_lastEvent' = "NONE" \/ m_stack = <<>>
       THEN /\ shellLastOp' = ShellOp("loop", m_lastEvent',
                                      IF m_stack = <<>> THEN "none" ELSE Top(m_stack).route,
                                      Len(m_stack), FALSE, NoRequest(authenticated, FALSE),
                                      FALSE, FALSE, FALSE)
            /\ UNCHANGED <<navVars, authenticated, shellPhase>>
       ELSE /\ hit \in ItemsOf(Top(m_stack).route) \cup {"none"}
            /\ \E req \in {handleTouch(Top(m_stack).route, m_lastEvent', hit, loginOk,
                                     authenticated)} :
               \E out \in {Served(req)} :
               \E gone \in {Destroyed(out.trace, Top(m_stack).id)} :
                   /\ Len(out.stack) <= MaxDepth /\ out.nextId <= MaxShellPages + 1
                   /\ authenticated' = req.auth
                   /\ m_stack' = out.stack
                   /\ m_currentRoute' = out.cur
                   /\ nextPageId' = out.nextId
                   /\ IF req.call = "none"
                      THEN UNCHANGED <<lastCall, callTrace>>
                      ELSE /\ callTrace' = out.trace
                           /\ lastCall' = IF req.call = "goBack"
                                          THEN [op |-> "goBack", path |-> NullPath,
                                                clearStack |-> FALSE, returned |-> TRUE,
                                                result |-> out.result, denied |-> FALSE,
                                                factoryFailed |-> FALSE]
                                          ELSE CallRecord("navigateTo", req.path,
                                                          req.clearStack, out, FALSE)
                   /\ shellPhase' = IF gone /\ req.after /\ harmed THEN "corrupt"
                                    ELSE "running"
                   /\ shellLastOp' = ShellOp("loop", m_lastEvent', Top(m_stack).route,
                                             Len(m_stack), TRUE, req, out.result,
                                             gone, gone /\ req.after)
                   /\ UNCHANGED <<navPhase, m_routes, m_rootRoute, lastRegistered>>
    /\ UNCHANGED otherVarsOfShell

\* navigateTo(path, clearStack) called from outside the page handlers,
\* through the router's public interface
ShellNavigateTo(path, clearStack) ==
    /\ shellPhase = "running" /\ navPhase = "running"
    /\ \E out \in {navigateTo(m_routes, m_stack, m_currentRoute, nextPageId, path,
                             clearStack, NoGuardAnswers, TRUE, {<<path, clearStack>>})} :
           /\ Len(out.stack) <= MaxDepth /\ out.nextId <= MaxShellPages + 1
           /\ m_stack' = out.stack
           /\ m_currentRoute' = out.cur
           /\ nextPageId' = out.nextId
           /\ callTrace' = out.trace
           /\ lastCall' = CallRecord("navigateTo", path, clearStack, out, FALSE)
           /\ shellLastOp' = ShellOp("navigateTo", "NONE",
                                     IF m_stack = <<>> THEN "none" ELSE Top(m_stack).route,
                                     Len(m_stack), FALSE,
                                     Request("navigateTo", path, clearStack, authenticated, FALSE),
                                     out.result, FALSE, FALSE)
    /\ UNCHANGED <<touchVars, navPhase, m_routes, m_rootRoute, lastRegistered,
                   authenticated, shellPhase>>
    /\ UNCHANGED otherVarsOfShell

InitShell ==
    /\ shellPhase = "boot"
    /\ authenticated = FALSE
    /\ shellLastOp = ShellOp("none", "NONE", "none", 0, FALSE, NoRequest(FALSE, FALSE),
                             FALSE, FALSE, FALSE)

\* the navigations made from outside the handlers: to the home page with the
\* stack cleared, and a notification page pushed over the current page
ExternalNavigations == {<<"/", TRUE>>, <<"/notification", FALSE>>}

\* the items a tap of this iteration can land on: those of the top page's
\* grid, when the iteration can end a touch (handleTap runs on TAP only)
ShellHits(touched) ==
    IF touched \/ ~m_currentTouch.pressed \/ m_stack = <<>> THEN {"none"}
    ELSE ItemsOf(Top(m_stack).route) \cup {"none"}

NextShell ==
    \/ ShellSetup
    \/ \E touched \in BOOLEAN, dt \in ShellTimeSteps :
       \E p \in (IF touched THEN ShellPoints ELSE {ShellIdle}) :
       \E hit \in ShellHits(touched) :
       \E loginOk \in (IF hit = "user" THEN BOOLEAN ELSE {TRUE}) :
       \E harmed \in (IF hit \in {"user", "logout"} THEN BOOLEAN ELSE {FALSE}) :
           ShellLoop(touched, p[1], p[2], dt, hit, loginOk, harmed)
    \/ \E n \in ExternalNavigations : ShellNavigateTo(n[1], n[2])

Init == InitTouch /\ InitNav /\ InitFrame /\ InitSlider /\ InitGrid /\ InitShell

SpecTouch == Init /\ [][NextTouch]_vars

SpecNav == Init /\ [][NextNav]_vars

SpecFrame == Init /\ [][NextFrame]_vars

SpecSlider == Init /\ [][NextSlider]_vars

SpecGrid == Init /\ [][NextGrid]_vars

SpecHexPosition == Init /\ [][NextHexPosition]_vars

SpecShell == Init /\ [][NextShell]_vars

(* ============================ claims ================================== *)

Count(seq, e) == Cardinality({i \in DOMAIN seq : seq[i] = e})

\* C1: a session released before 300 ms whose displacement stayed below 10 px
\* on both axes in every frame emits exactly one TAP, on the release frame,
\* and neither DRAG_START nor LONG_PRESS.
C1_TapSession ==
    (sessPhase = "released" /\ sessStationary /\ sessElapsed < 300)
        => (sessEvents = <<"TAP">> /\ m_lastEvent = "TAP")

C1_Witness ==
    /\ sessPhase = "released" /\ sessStationary /\ sessElapsed < 300
    /\ m_lastTouch.pressed /\ m_lastTouch.x # m_touchStart.x

\* C2: a session that stays stationary (displacement < 10 px on both axes)
\* for 800 ms or longer emits LONG_PRESS exactly once, however long it is held.
C2_LongPressExactlyOnce ==
    (sessPhase \in {"active", "released"} /\ sessStationary /\ sessHeldLong)
        => Count(sessEvents, "LONG_PRESS") = 1

\* DRAG_START, then any number of DRAG_MOVE, then DRAG_END
IsDragSequence(evs) ==
    /\ Len(evs) >= 2
    /\ evs[1] = "DRAG_START"
    /\ evs[Len(evs)] = "DRAG_END"
    /\ \A i \in 2..(Len(evs) - 1) : evs[i] = "DRAG_MOVE"

\* C3: a session whose displacement exceeds 10 px on some axis before 800 ms
\* have elapsed emits exactly DRAG_START, DRAG_MOVE*, DRAG_END, the last on
\* the release frame, and no TAP.
C3_DragSession ==
    (sessPhase = "released" /\ sessMovedEarly)
        => (IsDragSequence(sessEvents) /\ m_lastEvent = "DRAG_END")

C3_Witness ==
    /\ sessPhase = "released" /\ sessMovedEarly
    /\ sessEvents = <<"DRAG_START", "DRAG_END">>
    /\ sessElapsed < 300

(* ---------------------------- navigation ------------------------------ *)

\* the page instances and their routes, bottom first
Pages(stack) == [i \in DOMAIN stack |-> <<stack[i].id, stack[i].route>>]

\* C4 as stated: after a successful init the navigation stack is never empty.
C4_StackNeverEmpty ==
    navPhase \in {"running", "hung"} => Len(m_stack) >= 1

\* C4 amended: a successful init leaves at least one page, and afterwards a
\* non-empty stack becomes empty only in a navigateTo(.., clearStack=true)
\* whose factory returned null after the stack was cleared, or in a reset()
\* whose navigation to the root did not succeed.
C4_EmptyOnlyAfterFailedClear ==
    /\ [](lastCall.op = "init" /\ lastCall.result => Len(m_stack) >= 1)
    /\ [][(navPhase = "running" /\ Len(m_stack) >= 1 /\ Len(m_stack') = 0)
            => \/ /\ lastCall'.op = "navigateTo"
                  /\ lastCall'.clearStack
                  /\ lastCall'.factoryFailed
                  /\ ~lastCall'.result
               \/ /\ lastCall'.op = "reset"
                  /\ ~lastCall'.result]_vars

C4_Witness ==
    /\ navPhase = "running"
    /\ lastCall.op = "navigateTo" /\ lastCall.clearStack /\ lastCall.factoryFailed
    /\ callTrace # <<>>
    /\ Len(m_stack) = 0

\* C5: whenever navigateTo(path, clearStack=true) returns true the stack
\* depth is exactly 1, whatever the guards answered.
C5_ClearStackDepthOne ==
    (lastCall.op = "navigateTo" /\ lastCall.clearStack
        /\ lastCall.returned /\ lastCall.result)
        => Len(m_stack) = 1

\* C6: navigateTo on a path that is not registered returns false and leaves
\* the stack as it was (same pages, same order, same top), for either
\* clearStack value.
C6_UnregisteredPathNoChange ==
    [][(navPhase = "running" /\ lastCall'.op = "navigateTo"
          /\ findRoute(m_routes, lastCall'.path) = 0)
        => (lastCall'.returned /\ ~lastCall'.result
              /\ m_stack' = m_stack /\ callTrace' = <<>>)]_vars

C6_Witness ==
    /\ lastCall.op = "navigateTo" /\ lastCall.path = UnknownPath
    /\ lastCall.clearStack
    /\ ~lastCall.result
    /\ Len(m_stack) = 2

\* C7: goBack() at stack depth 0 or 1 returns false; no page receives onExit
\* or onEnter, none is destroyed, and the stack is unchanged.
C7_GoBackAtRootNoChange ==
    [][(navPhase = "running" /\ lastCall'.op = "goBack" /\ Len(m_stack) <= 1)
        => (~lastCall'.result /\ m_stack' = m_stack /\ callTrace' = <<>>
              /\ m_currentRoute' = m_currentRoute)]_vars

C7_Witness ==
    /\ lastCall.op = "goBack" /\ ~lastCall.result
    /\ Len(m_stack) = 1 /\ Top(m_stack).m_isActive

\* C8: navigateTo returns false whenever the guard of the requested route
\* refuses activation, redirect or not; the stack changes at most by the
\* push of the redirect page.
C8_GuardDeniedReturnsFalse ==
    [][(navPhase = "running" /\ lastCall'.op = "navigateTo"
          /\ lastCall'.denied /\ lastCall'.returned)
        => /\ ~lastCall'.result
           /\ \/ Pages(m_stack') = Pages(m_stack)
              \/ /\ Len(m_stack') = Len(m_stack) + 1
                 /\ Pages(Front(m_stack')) = Pages(m_stack)]_vars

\* C9: every call of navigateTo (also the one made by init and by reset)
\* returns, for every set of routes and guards.
C9_NavigateToReturns ==
    lastCall.op \in {"navigateTo", "init", "reset"} => lastCall.returned

\* C10: navigateTo(path, clearStack=false) that fails because the factory
\* returns null returns false, keeps the same page instances in the same
\* order with the same top, and keeps the current-route record.
C10_FactoryNullNoMutation ==
    [][(navPhase = "running" /\ lastCall'.op = "navigateTo"
          /\ ~lastCall'.clearStack /\ lastCall'.factoryFailed)
        => (lastCall'.returned /\ ~lastCall'.result
              /\ Pages(m_stack') = Pages(m_stack)
              /\ m_currentRoute' = m_currentRoute)]_vars

C10_Witness ==
    /\ lastCall.op = "navigateTo" /\ ~lastCall.clearStack /\ lastCall.factoryFailed
    /\ Len(m_stack) = 2
    /\ m_currentRoute # NullRoute /\ m_currentRoute # lastCall.path
    /\ callTrace = << <<"onExit", Top(m_stack).id>> >>

\* positions of the lifecycle calls of one kind on one page in a call trace
TracePos(trace, kind, id) == {i \in DOMAIN trace : trace[i] = <<kind, id>>}

\* C11: navigateTo with clearStack=true that passes lookup and guard calls
\* onExit on every page of the stack before destroying it, and destroys all
\* of them before the new page is created.
C11_ClearStackExitsBeforeDestroy ==
    (lastCall.op = "navigateTo" /\ lastCall.clearStack
        /\ findRoute(m_routes, lastCall.path) # 0 /\ ~lastCall.denied)
        => \A i \in DOMAIN callTrace :
              callTrace[i][1] = "destroy"
                  => /\ \E j \in 1..(i - 1) : callTrace[j] = <<"onExit", callTrace[i][2]>>
                     /\ \A k \in DOMAIN callTrace : callTrace[k][1] = "create" => i < k

C13_RegisterRouteKeepsFirst ==
    /\ [](\A i, j \in DOMAIN m_routes : m_routes[i].path = m_routes[j].path => i = j)
    /\ [][(lastCall'.op = "registerRoute"
             /\ findRoute(m_routes, lastRegistered'.path) # 0)
           => /\ m_routes' = m_routes
              /\ m_routes'[findRoute(m_routes', lastRegistered'.path)]
                    = m_routes[findRoute(m_routes, lastRegistered'.path)]]_vars

C13_Witness ==
    /\ lastCall.op = "registerRoute"
    /\ lastRegistered # NoRegistration
    /\ \E i \in DOMAIN m_routes :
          /\ m_routes[i].path = lastRegistered.path
          /\ m_routes[i].guard # lastRegistered.guard
    /\ Len(m_routes) = 2

(* --------------------------- frame buffer ----------------------------- *)

\* the part of the rectangle passed to the markDirty executed last that
\* lies on the surface, by its corners
MarkedOnScreen(args) ==
    [x1 |-> Max(args[1], 0), y1 |-> Max(args[2], 0),
     x2 |-> Min(args[1] + args[3], SCREEN_WIDTH),
     y2 |-> Min(args[2] + args[4], SCREEN_HEIGHT)]

Covers(region, x1, y1, x2, y2) ==
    /\ region.dirty
    /\ region.x <= x1 /\ x2 <= region.x + region.width
    /\ region.y <= y1 /\ y2 <= region.y + region.height

\* C14: with dirty tracking enabled, the dirty rectangle after the markDirty
\* calls made since the flag was last cleared is the bounding box of the
\* clamped, non-empty rectangles passed (no rectangle while none was
\* passed); every markDirty leaves the on-screen pixels of its rectangle
\* and the rectangle tracked before inside the tracked rectangle.
C14_DirtyRectIsUnion ==
    /\ [](fbUnion.valid
            => IF fbUnion.empty THEN ~m_dirtyRegion.dirty
               ELSE m_dirtyRegion = DirtyRegion(fbUnion.x1, fbUnion.y1,
                                        fbUnion.x2 - fbUnion.x1,
                                        fbUnion.y2 - fbUnion.y1, TRUE))
    /\ [][(fbLastOp'.op = "markDirty" /\ m_dirtyTracking)
            => /\ LET g == MarkedOnScreen(fbLastOp'.args)
                  IN  (fbLastOp'.args[3] > 0 /\ fbLastOp'.args[4] > 0
                          /\ g.x1 < g.x2 /\ g.y1 < g.y2)
                        => Covers(m_dirtyRegion', g.x1, g.y1, g.x2, g.y2)
               /\ m_dirtyRegion.dirty
                    => Covers(m_dirtyRegion', m_dirtyRegion.x, m_dirtyRegion.y,
                              m_dirtyRegion.x + m_dirtyRegion.width,
                              m_dirtyRegion.y + m_dirtyRegion.height)]_vars

\* two separate rectangles were marked after a clear: (-20,100,50,30), cut
\* to (0,100,30,30), and (100,100,50,30)
C14_Witness ==
    /\ fbLastOp.op = "markDirty"
    /\ m_dirtyTracking
    /\ fbUnion.valid /\ ~fbUnion.empty
    /\ m_dirtyRegion = DirtyRegion(0, 100, 150, 30, TRUE)

\* C15: markAllDirty leaves the rectangle (0,0,SCREEN_WIDTH,SCREEN_HEIGHT)
\* with the flag set, whatever the rectangle, the flag and the tracking
\* setting were before.
C15_MarkAllDirtyWholeSurface ==
    [][fbLastOp'.op = "markAllDirty"
        => m_dirtyRegion' = DirtyRegion(0, 0, SCREEN_WIDTH, SCREEN_HEIGHT, TRUE)]_vars

C15_Witness ==
    /\ fbLastOp.op = "markAllDirty"
    /\ ~m_dirtyTracking
    /\ m_dirtyRegion = DirtyRegion(0, 0, SCREEN_WIDTH, SCREEN_HEIGHT, TRUE)

\* C16: in every state reached by markDirty (any int16_t arguments),
\* markAllDirty, clearDirtyFlags and endFrame, a set dirty rectangle lies
\* inside the surface and is not empty.
C16_DirtyRectInsideSurface ==
    m_dirtyRegion.dirty
        => /\ m_dirtyRegion.x >= 0 /\ m_dirtyRegion.y >= 0
           /\ m_dirtyRegion.width > 0 /\ m_dirtyRegion.height > 0
           /\ m_dirtyRegion.x + m_dirtyRegion.width <= SCREEN_WIDTH
           /\ m_dirtyRegion.y + m_dirtyRegion.height <= SCREEN_HEIGHT

\* a rectangle reaching past the right edge was marked after a clear
C16_Witness ==
    /\ fbLastOp = FrameOp("markDirty", <<350, 100, 400, 30>>)
    /\ m_dirtyTracking
    /\ fbUnion.valid
    /\ m_dirtyRegion.dirty
    /\ m_dirtyRegion.x + m_dirtyRegion.width = SCREEN_WIDTH

\* C17: on an initialised buffer endFrame(fullUpdate) pushes the whole
\* surface when fullUpdate is true or tracking is disabled; otherwise it
\* pushes exactly the dirty rectangle and clears the flag when the flag is
\* set, and pushes nothing when it is not.
C17_EndFrameFlush ==
    [][(fbLastOp'.op = "endFrame" /\ m_initialized)
        => IF fbLastOp'.args[1] \/ ~m_dirtyTracking
           THEN fbFlush' = FullFlush(m_frontBuffer')
           ELSE IF m_dirtyRegion.dirty
                THEN /\ fbFlush'.kind = "rect"
                     /\ DirtyRegion(fbFlush'.x, fbFlush'.y, fbFlush'.width,
                                    fbFlush'.height, TRUE) = m_dirtyRegion
                     /\ ~m_dirtyRegion'.dirty
                ELSE fbFlush'.kind = "none"]_vars

\* a partial flush of a rectangle merged from two
C17_Witness ==
    /\ fbLastOp = FrameOp("endFrame", <<FALSE>>)
    /\ m_initialized
    /\ fbFlush.kind = "rect"
    /\ fbFlush.x = 0 /\ fbFlush.width = 150
    /\ ~m_dirtyRegion.dirty

\* C18: after a successful init front and back are two distinct sprites;
\* every endFrame exchanges them once and pushes the sprite that was the
\* back one during the frame; after two endFrames the assignment is the one
\* before the first of the two.
C18_BuffersAlternate ==
    /\ [](m_initialized
            => /\ m_frontBuffer # NullSprite /\ m_backBuffer # NullSprite
               /\ m_frontBuffer # m_backBuffer)
    /\ [][(fbLastOp'.op = "endFrame" /\ m_initialized)
            => /\ m_frontBuffer' = m_backBuffer
               /\ m_backBuffer' = m_frontBuffer
               /\ fbFlush'.kind # "none" => fbFlush'.sprite = m_backBuffer]_vars
    /\ [](m_frameCount >= 2 => <<m_frontBuffer, m_backBuffer>> = fbSwaps[2])

C18_Witness ==
    /\ fbLastOp.op = "endFrame"
    /\ m_frameCount = 2
    /\ fbFlush.kind = "full"
    /\ fbFlush.sprite = FrontSprite
    /\ m_frontBuffer = FrontSprite /\ m_backBuffer = BackSprite

(* ---------------------------- slider ---------------------------------- *)

\* C19: on an enabled slider with range [0,100], update with a pressed touch
\* inside the annulus whose angle is 135 degrees past startAngle leaves
\* getValue() = 50.
C19_HalfSweepIsFifty ==
    [][(sliderLastOp'.op = "update"
          /\ slider.m_enabled
          /\ slider.m_minValue = 0 /\ slider.m_maxValue = 100 * Unit
          /\ sliderLastOp'.args[1]
          /\ contains(sliderLastOp'.args[2], sliderLastOp'.args[3])
          /\ relativeAngleOf(touchAngleDeg(sliderLastOp'.args[2], sliderLastOp'.args[3])) = 135)
        => slider'.m_value = 50 * Unit]_vars

\* the touch straight left of the centre, on the ring
C19_Witness ==
    /\ sliderLastOp = SliderOp("update", <<TRUE, 90, 180>>)
    /\ slider.m_enabled
    /\ slider.m_minValue = 0 /\ slider.m_maxValue = 100 * Unit
    /\ slider.m_currentAngle = 270
    /\ slider.m_value = 50 * Unit

\* v clamped to [min, max]
ClampToRange(v, min, max) == IF v < min THEN min ELSE IF v > max THEN max ELSE v

\* C20: with min < max, setValue(v) leaves getValue() = v clamped to
\* [min,max] from every state, and m_targetValue at the same value.
C20_SetValueRoundTrip ==
    [][(sliderLastOp'.op = "setValue" /\ slider.m_minValue < slider.m_maxValue)
        => /\ slider'.m_value = ClampToRange(sliderLastOp'.args[1] * Unit,
                                             slider.m_minValue, slider.m_maxValue)
           /\ slider'.m_targetValue = slider'.m_value]_vars

\* 150 set on the range [20,60] after a touch had moved the slider
C20_Witness ==
    /\ sliderLastOp = SliderOp("setValue", <<150>>)
    /\ slider.m_minValue = 20 * Unit /\ slider.m_maxValue = 60 * Unit
    /\ slider.m_isDragging
    /\ slider.m_value = 60 * Unit /\ slider.m_targetValue = 60 * Unit

TouchTaken ==
    /\ sliderLastOp.op = "update"
    /\ slider.m_enabled
    /\ sliderLastOp.args[1]
    /\ contains(sliderLastOp.args[2], sliderLastOp.args[3])

\* degrees of the touch past startAngle, 0..359
TouchRelativeAngle == relativeAngleOf(touchAngleDeg(sliderLastOp.args[2], sliderLastOp.args[3]))

\* C22: a pressed touch on the ring with 270 < relativeAngle < 360 snaps the
\* slider to the nearest end of the arc: relative angle 270 and value = max
\* when the touch is nearer the end angle, relative angle 0 and value = min
\* when it is nearer the start angle.
C22_SnapToNearestEnd ==
    (TouchTaken /\ TouchRelativeAngle > 270 /\ TouchRelativeAngle < 360)
        => /\ (TouchRelativeAngle - 270 < 360 - TouchRelativeAngle)
                => /\ slider.m_currentAngle = normalizeAngle(m_startAngle + 270)
                   /\ slider.m_value = slider.m_maxValue
           /\ (360 - TouchRelativeAngle < TouchRelativeAngle - 270)
                => /\ slider.m_currentAngle = m_startAngle
                   /\ slider.m_value = slider.m_minValue

\* where the touch of the update executed last lies, seen from the centre
TouchStraightUp == sliderLastOp.args[2] = SliderCenterX /\ sliderLastOp.args[3] < SliderCenterY
TouchStraightDown == sliderLastOp.args[2] = SliderCenterX /\ sliderLastOp.args[3] > SliderCenterY
TouchStraightLeft == sliderLastOp.args[2] < SliderCenterX /\ sliderLastOp.args[3] = SliderCenterY
TouchStraightRight == sliderLastOp.args[2] > SliderCenterX /\ sliderLastOp.args[3] = SliderCenterY

C24_FirstItemAtCentre ==
    m_items # <<>>
        => /\ m_items[1].index = 0
           /\ m_items[1].x = m_centerX /\ m_items[1].y = m_centerY

\* the item that was second took the centre when the first one was removed
C24_Witness ==
    /\ gridLastOp.op = "removeItem" /\ gridLastOp.args = <<0>>
    /\ Len(m_items) = MaxItems - 1
    /\ m_items[1].label = "b"
    /\ m_items[1].x = m_centerX /\ m_items[1].y = m_centerY

\* getHexPosition was applied last to index 1 of the grid built with
\* itemRadius = 40 and spacing = 10
IndexOneLocated ==
    /\ gridLastOp.op = "getHexPosition"
    /\ gridLastOp.args[1] = 1
    /\ m_itemRadius = 40 /\ m_spacing = 10

\* C25 as stated: with hexDistance 90 the item with index 1 is at about
\* (centerX + 45, centerY - 78).
C25_IndexOneUpRight ==
    IndexOneLocated
        => /\ Abs(gridLastOp.args[2] - (m_centerX + 45)) <= 1
           /\ Abs(gridLastOp.args[3] - (m_centerY - 78)) <= 1

\* C25 amended: with hexDistance 90 the item with index 1 is at
\* (centerX + trunc(90 cos 30), centerY + trunc(90 sin 30)), that is
\* (centerX + 77, centerY + 45), or centerY + 44 where the float product
\* falls just short of 45.
C25_IndexOneRightDown ==
    IndexOneLocated
        => /\ gridLastOp.args[2] = m_centerX + 77
           /\ gridLastOp.args[3] \in {m_centerY + 45, m_centerY + 44}

C25_Witness ==
    /\ IndexOneLocated
    /\ fpSlack = 0
    /\ gridLastOp.args = <<1, 257, 225>>

\* C26: every index i > 0 is placed on the ring r >= 1 with
\* 1 + 3r(r-1) <= i < 1 + 3r(r+1), at distance r * hexDistance from the
\* centre (up to the dropped fractions), and never at the centre.
C26_RingOfIndex ==
    (gridLastOp.op = "getHexPosition" /\ gridLastOp.args[1] > 0)
        => \E r \in 1..MaxIndex :
              /\ 1 + 3 * r * (r - 1) <= gridLastOp.args[1]
              /\ gridLastOp.args[1] < 1 + 3 * r * (r + 1)
              /\ LET dx == gridLastOp.args[2] - m_centerX
                     dy == gridLastOp.args[3] - m_centerY
                     d2 == dx * dx + dy * dy
                 IN  /\ d2 <= (r * m_hexDistance) * (r * m_hexDistance)
                     /\ d2 >= (r * m_hexDistance - 3) * (r * m_hexDistance - 3)
                     /\ <<gridLastOp.args[2], gridLastOp.args[3]>> # <<m_centerX, m_centerY>>

\* the squared distance from the tap to the item at the scroll offset, in
\* unbounded integers
TrueDistSquared(item, x, y) ==
    (x - (item.x + m_scrollOffsetX)) * (x - (item.x + m_scrollOffsetX))
        + (y - (item.y + m_scrollOffsetY)) * (y - (item.y + m_scrollOffsetY))

WithinItem(item, x, y) == TrueDistSquared(item, x, y) <= m_itemRadius * m_itemRadius

\* C27: handleTap returns true only for an item within itemRadius of the
\* tap, the lowest-index one among the items the hit-test looks at; a tap
\* farther than itemRadius from every item finds no item and returns false.
C27_TapHitsOnlyNearItem ==
    gridLastOp.op = "handleTap"
        => LET x == gridLastOp.args[1]
               y == gridLastOp.args[2]
           IN  /\ gridLastOp.result
                    => /\ gridLastOp.hit >= 0
                       /\ WithinItem(m_items[gridLastOp.hit + 1], x, y)
                       /\ \A j \in 1..gridLastOp.hit :
                             ~(m_items[j].visible /\ WithinItem(m_items[j], x, y))
               /\ (\A i \in DOMAIN m_items : ~WithinItem(m_items[i], x, y))
                    => ~gridLastOp.result /\ gridLastOp.hit = -1

\* C28: after handleDrag each axis of the scroll offset lies within
\* +-maxScroll of the items now in the grid; with items that fit on the
\* screen, or no items, the offset is (0,0).
C28_ScrollWithinBounds ==
    gridLastOp.op = "handleDrag"
        => /\ Abs(m_scrollOffsetX) <= updateScrollBounds(m_items)[1]
           /\ Abs(m_scrollOffsetY) <= updateScrollBounds(m_items)[2]

\* C29: whenever handleTap runs, the items its hit-test skips are those
\* whose position at the current scroll offset lies outside the screen
\* widened by itemRadius + 10.
C29_HitTestVisibilityCurrent ==
    gridLastOp.op = "handleTap"
        => \A i \in DOMAIN m_items :
              m_items[i].visible
                 <=> isItemVisible(m_items[i], m_scrollOffsetX, m_scrollOffsetY)

\* what addItem was given, for each item of the list
Given(items) == [i \in DOMAIN items |-> <<items[i].label, items[i].onTap>>]

\* C30: the item at list position i has index i; removeItem(k) with a valid
\* k keeps the other items in their order, each later one with its index
\* lowered by one, and removeItem with any other k changes nothing.
C30_DenseIndices ==
    /\ [](\A i \in DOMAIN m_items : m_items[i].index = i - 1)
    /\ [][gridLastOp'.op = "removeItem"
            => LET k == gridLastOp'.args[1]
               IN  IF k >= 0 /\ k < Len(m_items)
                   THEN /\ Len(m_items') = Len(m_items) - 1
                        /\ \A i \in DOMAIN m_items' :
                              /\ Given(m_items')[i]
                                    = Given(m_items)[IF i <= k THEN i ELSE i + 1]
                              /\ m_items'[i].index
                                    = IF i <= k THEN m_items[i].index
                                      ELSE m_items[i + 1].index - 1
                   ELSE UNCHANGED <<m_items, m_scrollOffsetX, m_scrollOffsetY,
                                    m_maxScrollX, m_maxScrollY>>]_vars

C30_Witness ==
    /\ gridLastOp.op = "removeItem" /\ gridLastOp.args = <<1>>
    /\ Given(m_items) = << <<"a", TRUE>>, <<"b", FALSE>> >>
    /\ m_items[2].index = 1
    /\ <<m_items[2].x, m_items[2].y>>
          = getHexPosition(1, m_centerX, m_centerY, m_hexDistance, fpSlack)

\* C37: after addItem, removeItem, clear, handleDrag and setScrollOffset the
\* scroll offset is within the stored bounds on both axes, also when an
\* addItem or a removeItem has lowered the bounds below the offset.
C37_OffsetWithinStoredBounds ==
    /\ Abs(m_scrollOffsetX) <= m_maxScrollX
    /\ Abs(m_scrollOffsetY) <= m_maxScrollY

\* C38: after construction, setRange, setValue and update (and every other
\* operation) m_value equals m_targetValue, so the interpolation of update
\* finds no difference and leaves the slider as it is.
C38_ValueEqualsTarget ==
    /\ slider.m_value = slider.m_targetValue
    /\ smoothValue(slider) = slider

\* a touch at the bottom of the ring on the range [0,10]: 45 degrees of the
\* sweep, a value that is not a whole number
C38_Witness ==
    /\ sliderLastOp = SliderOp("update", <<TRUE, 180, 270>>)
    /\ slider.m_minValue = 0 /\ slider.m_maxValue = 10 * Unit
    /\ slider.m_currentAngle = 180
    /\ slider.m_targetValue = 2250 /\ slider.m_value = 2250

(* ------------------------- touch, continued ---------------------------- *)

\* C31: the event reported after each update is one of NONE, TAP,
\* LONG_PRESS, DRAG_START, DRAG_MOVE, DRAG_END; DOUBLE_TAP and the four
\* SWIPE events are never produced.
C31_OnlySixEvents ==
    /\ m_lastEvent \in TouchEvent
    /\ m_lastEvent \in {"NONE", "TAP", "LONG_PRESS", "DRAG_START", "DRAG_MOVE", "DRAG_END"}
    /\ \A i \in DOMAIN sessEvents :
          sessEvents[i] \notin {"DOUBLE_TAP", "SWIPE_UP", "SWIPE_DOWN", "SWIPE_LEFT", "SWIPE_RIGHT"}

\* a session that moved by 11 px, moved again and was released
C31_Witness ==
    /\ sessPhase = "released"
    /\ sessEvents = <<"DRAG_START", "DRAG_MOVE", "DRAG_END">>
    /\ m_lastEvent = "DRAG_END"

\* C33: on the first held frame of a stationary session (displacement below
\* 10 px from the start sample, not dragging) at which 800 ms or more have
\* passed since the press, LONG_PRESS is emitted, also when exactly 800 ms
\* have passed.
C33_LongPressAtEightHundred ==
    [][(/\ m_currentTouch.pressed /\ m_currentTouch'.pressed
        /\ sessStationary' /\ ~m_isDragging
        /\ sessElapsed < LONG_PRESS_DURATION
        /\ sessElapsed' >= LONG_PRESS_DURATION)
        => m_lastEvent' = "LONG_PRESS"]_vars

\* C39: in one session every event after DRAG_START is DRAG_MOVE, or
\* DRAG_END on the release frame; neither LONG_PRESS nor TAP follows
\* DRAG_START, and a session that has emitted DRAG_START ends with DRAG_END.
C39_DragExcludesTapAndLongPress ==
    /\ \A i, j \in DOMAIN sessEvents :
          (sessEvents[i] = "DRAG_START" /\ i < j)
             => /\ sessEvents[j] \in {"DRAG_MOVE", "DRAG_END"}
                /\ sessEvents[j] = "DRAG_END" => (j = Len(sessEvents) /\ ~m_currentTouch.pressed)
    /\ (sessPhase = "released" /\ \E i \in DOMAIN sessEvents : sessEvents[i] = "DRAG_START")
          => m_lastEvent = "DRAG_END"
    /\ m_isDragging => m_lastEvent \in {"NONE", "DRAG_START", "DRAG_MOVE"}

\* the finger is back within 10 px of the start point and has been held for
\* more than 800 ms after a DRAG_START: no event on this frame
C39_Witness ==
    /\ sessPhase = "active" /\ m_isDragging
    /\ sessEvents = <<"DRAG_START">>
    /\ IsStationary(m_currentTouch.x - m_touchStart.x, m_currentTouch.y - m_touchStart.y)
    /\ sessElapsed > LONG_PRESS_DURATION
    /\ m_lastEvent = "NONE"

(* ----------------------- navigation, continued ------------------------- *)

\* the page with this identity is on the stack and entered
EnteredIn(stack, id) == \E i \in DOMAIN stack : stack[i].id = id /\ stack[i].m_isActive
\* the page with this identity is on the stack
OnStack(stack, id) == \E i \in DOMAIN stack : stack[i].id = id

\* C35: after navigateTo or goBack has returned, true or false, with pages
\* on the stack, the top page is entered and every other page is exited;
\* onExit goes to an entered page only and onEnter to a page that is new or
\* exited, so the two alternate on each page, onEnter first.
C35_TopEnteredOthersExited ==
    /\ []((lastCall.op \in {"navigateTo", "goBack"} /\ lastCall.returned /\ m_stack # <<>>)
            => /\ Top(m_stack).m_isActive
               /\ \A i \in 1..(Len(m_stack) - 1) : ~m_stack[i].m_isActive)
    /\ [][(lastCall'.op \in {"navigateTo", "goBack"})
            => \A i \in DOMAIN callTrace' :
                  /\ callTrace'[i][1] = "onExit" => EnteredIn(m_stack, callTrace'[i][2])
                  /\ callTrace'[i][1] = "onEnter"
                        => (OnStack(m_stack, callTrace'[i][2])
                               => ~EnteredIn(m_stack, callTrace'[i][2]))]_vars

\* C36: getCurrentRoute() is null or the route whose factory built the page
\* on top of the stack; it is null whenever the stack is empty and after
\* every goBack that returned true.
C36_CurrentRouteIsTopOrNull ==
    /\ m_currentRoute # NullRoute
          => (m_stack # <<>> /\ m_currentRoute = Top(m_stack).route)
    /\ (lastCall.op = "goBack" /\ lastCall.result) => m_currentRoute = NullRoute

(* ------------------------- main loop and pages ------------------------- *)

\* the touch session that ended in the latest iteration was a vertical stroke
\* of more than SWIPE_THRESHOLD pixels
UpwardSwipeDone ==
    /\ sessPhase = "released" /\ m_lastTouch.pressed
    /\ m_touchStart.y - m_lastTouch.y > SWIPE_THRESHOLD
DownwardSwipeDone ==
    /\ sessPhase = "released" /\ m_lastTouch.pressed
    /\ m_lastTouch.y - m_touchStart.y > SWIPE_THRESHOLD

\* no event the loop dispatches makes the lock page call the router
LockViewNeverNavigates ==
    (shellLastOp.op = "loop" /\ shellLastOp.page = "/lock") => shellLastOp.call = "none"

\* no event the loop dispatches makes a page call goBack
GoBackNeverCalled == shellLastOp.op = "loop" => shellLastOp.call # "goBack"

\* C32: swipe to unlock: when an upward swipe has been completed on the lock
\* page, the loop has dispatched an event that made LockView navigate away,
\* to "/" when a user is authenticated and to "/login" otherwise.
C32_SwipeUpUnlocks ==
    (shellLastOp.op = "loop" /\ shellLastOp.page = "/lock" /\ UpwardSwipeDone)
        => /\ shellLastOp.call = "navigateTo" /\ shellLastOp.result
           /\ m_stack # <<>>
           /\ Top(m_stack).route = (IF authenticated THEN "/" ELSE "/login")

\* C34: when a handler of the top page has made the router destroy that
\* page, it does not read or write the page's state after the router call
\* has returned.
C34_NoAccessAfterDestroy == shellLastOp.destroyedSelf => ~shellLastOp.accessAfter

\* C40: back navigation from touch: when a downward swipe has been completed
\* on the Slack or the Notification page over a stack of depth 2 or more, the
\* page has called goBack and the page below it has become the top.
C40_SwipeDownGoesBack ==
    (/\ shellLastOp.op = "loop" /\ shellLastOp.page \in {"/app/slack", "/notification"}
     /\ shellLastOp.depth >= 2 /\ DownwardSwipeDone)
        => /\ shellLastOp.call = "goBack" /\ shellLastOp.result
           /\ Len(m_stack) = shellLastOp.depth - 1

====
